---- MODULE Spec2Model ----
(***************************************************************************)
(* Grading and settlement logic of the football-predictions scripts.       *)
(*                                                                         *)
(* Units.  Decimal odds are integers in thousandths (2.5 is 2500), money   *)
(* (profit/loss) is in hundredths (1.5 is 150), predicted goals are in     *)
(* tenths (1.2 is 12) and a grading threshold is in millionths (0.1264 is  *)
(* 126400): each stands for the decimal number a column, a file or the     *)
(* source text holds.  What a script computes in floating point (a         *)
(* confidence, a market factor, the rounding of odds - 1 read from a float *)
(* column) is computed with the floats defined below.                      *)
(***************************************************************************)
EXTENDS Integers, Sequences, FiniteSets, TLC

NULL == 0 - 999999          \* SQL NULL / None / a missing number
NAN == 0 - 888888           \* the float NaN, where it differs from None
NULLS == "NULL"             \* SQL NULL in a text column

(***************************************************************************)
(* Python helpers                                                          *)
(***************************************************************************)

\* pd.isna(x)
isna(x) == x = NULL \/ x = NAN

\* round(x, 2) of a Decimal x given in thousandths, result in hundredths:
\* the value is exact and a tie goes to the even hundredth.
round2(x) ==
    LET q == x \div 10
        r == x % 10
    IN  IF r < 5 THEN q
        ELSE IF r > 5 THEN q + 1
        ELSE IF q % 2 = 0 THEN q ELSE q + 1

(***************************************************************************)
(* The Python float (IEEE 754 binary64; also the float64 of numpy and      *)
(* pandas).  A float that is a number is the record                        *)
(*     [kind |-> "number", sign |-> s, mant |-> m, exp |-> e]              *)
(* of value s * m * 2^e: s is 1 or -1 and m is a natural number written as *)
(* the sequence of its digits in base 2^15, lowest digit first.  Zero has  *)
(* m = <<>>, s = 1 and e = 0; every other number has a mantissa of exactly *)
(* 53 bits, so two floats are equal exactly when their records are.  Every *)
(* operation computes the exact result and rounds it to 53 bits, a tie to  *)
(* the even mantissa.  The values of the scripts are far from the ends of  *)
(* the exponent range: overflow and subnormal numbers are not modelled.    *)
(***************************************************************************)

LIMB == 2^15

Abs(x) == IF x < 0 THEN 0 - x ELSE x

\* ---- natural numbers of any size ----

RECURSIVE BigOf(_)
BigOf(n) == IF n = 0 THEN <<>> ELSE <<n % LIMB>> \o BigOf(n \div LIMB)

RECURSIVE BigInt(_)
BigInt(a) == IF a = <<>> THEN 0 ELSE a[1] + LIMB * BigInt(Tail(a))

RECURSIVE BigTrim(_)
BigTrim(a) ==
    IF a = <<>> \/ a[Len(a)] # 0 THEN a ELSE BigTrim(SubSeq(a, 1, Len(a) - 1))

First(a) == IF a = <<>> THEN 0 ELSE a[1]
Rest(a) == IF a = <<>> THEN a ELSE Tail(a)

\* a + b + c
RECURSIVE BigAdd(_, _, _)
BigAdd(a, b, c) ==
    IF a = <<>> /\ b = <<>> THEN BigOf(c)
    ELSE LET x == First(a) + First(b) + c
         IN  <<x % LIMB>> \o BigAdd(Rest(a), Rest(b), x \div LIMB)

\* the digits of a - b - c, for a >= b + c
RECURSIVE BigSubDigits(_, _, _)
BigSubDigits(a, b, c) ==
    IF a = <<>> THEN <<>>
    ELSE LET x == a[1] - First(b) - c
         IN  <<x % LIMB>> \o BigSubDigits(Tail(a), Rest(b), IF x < 0 THEN 1 ELSE 0)

BigSub(a, b) == BigTrim(BigSubDigits(a, b, 0))

RECURSIVE BigCmpAt(_, _, _)
BigCmpAt(a, b, i) ==
    IF i = 0 THEN 0
    ELSE IF a[i] < b[i] THEN 0 - 1
    ELSE IF a[i] > b[i] THEN 1
    ELSE BigCmpAt(a, b, i - 1)

\* -1, 0 or 1 as a < b, a = b or a > b
BigCmp(a, b) ==
    IF Len(a) < Len(b) THEN 0 - 1
    ELSE IF Len(a) > Len(b) THEN 1
    ELSE BigCmpAt(a, b, Len(a))

\* a * k + c, for 1 <= k <= LIMB and 0 <= c < LIMB
RECURSIVE BigScale(_, _, _)
BigScale(a, k, c) ==
    IF a = <<>> THEN BigOf(c)
    ELSE LET x == a[1] * k + c
         IN  <<x % LIMB>> \o BigScale(Tail(a), k, x \div LIMB)

RECURSIVE BigMul(_, _)
BigMul(a, b) ==
    IF a = <<>> \/ b = <<>> THEN <<>>
    ELSE LET low == IF b[1] = 0 THEN <<>> ELSE BigScale(a, b[1], 0)
             high == BigMul(a, Tail(b))
         IN  BigAdd(low, IF high = <<>> THEN <<>> ELSE <<0>> \o high, 0)

\* a * 2^n
BigShl(a, n) ==
    IF a = <<>> THEN a
    ELSE [i \in 1..(n \div 15) |-> 0] \o BigScale(a, 2^(n % 15), 0)

\* floor(a / 2^n)
BigShr(a, n) ==
    LET q == n \div 15
        lo == 2^(n % 15)
        hi == 2^(15 - (n % 15))
        b == IF q >= Len(a) THEN <<>> ELSE SubSeq(a, q + 1, Len(a))
    IN  BigTrim([i \in 1..Len(b) |->
                    (b[i] \div lo) + (IF i < Len(b) THEN (b[i + 1] % lo) * hi ELSE 0)])

RECURSIVE Bits(_)
Bits(x) == IF x = 0 THEN 0 ELSE 1 + Bits(x \div 2)

\* number of bits of a
BigBits(a) == IF a = <<>> THEN 0 ELSE 15 * (Len(a) - 1) + Bits(a[Len(a)])

\* bit i of a, bit 0 the lowest
BigBit(a, i) ==
    IF i \div 15 >= Len(a) THEN 0 ELSE (a[i \div 15 + 1] \div 2^(i % 15)) % 2

\* a has a bit set below bit n
BigLow(a, n) ==
    \E i \in 1..Len(a) :
        /\ a[i] # 0
        /\ i <= n \div 15 \/ (i = n \div 15 + 1 /\ a[i] % 2^(n % 15) # 0)

\* <<q, r2>> with r * 2^(n-1) = q * d + r2 / 2 and r2 < 2 * d, for 0 < r < 2 * d:
\* n steps of restoring division, done as two halves
RECURSIVE BigDivide(_, _, _)
BigDivide(r, d, n) ==
    IF n = 1
    THEN IF BigCmp(r, d) >= 0 THEN <<<<1>>, BigScale(BigSub(r, d), 2, 0)>>
         ELSE <<<<>>, BigScale(r, 2, 0)>>
    ELSE LET high == BigDivide(r, d, n \div 2)
             low == BigDivide(high[2], d, n - n \div 2)
         IN  <<BigAdd(BigShl(high[1], n - n \div 2), low[1], 0), low[2]>>

\* ---- floats ----

NANF == [kind |-> "nan", sign |-> 1, mant |-> <<>>, exp |-> 0]
NULLF == [kind |-> "null", sign |-> 1, mant |-> <<>>, exp |-> 0]
ZeroF == [kind |-> "number", sign |-> 1, mant |-> <<>>, exp |-> 0]
isnaF(c) == c.kind # "number"

\* The float nearest to s * (n + f) * 2^e, where 0 <= f < 1 and f > 0
\* exactly when sticky (then n has more than 53 bits).
RoundF(s, n, e, sticky) ==
    LET k == BigBits(n) - 53
    IN  IF n = <<>> THEN ZeroF
        ELSE IF k <= 0
        THEN [kind |-> "number", sign |-> s, mant |-> BigShl(n, 0 - k), exp |-> e + k]
        ELSE LET q == BigShr(n, k)
                 up == /\ BigBit(n, k - 1) = 1
                       /\ sticky \/ BigLow(n, k - 1) \/ q[1] % 2 = 1
                 q1 == IF up THEN BigAdd(q, <<>>, 1) ELSE q
             IN  IF BigBits(q1) > 53
                 THEN [kind |-> "number", sign |-> s, mant |-> BigShr(q1, 1), exp |-> e + k + 1]
                 ELSE [kind |-> "number", sign |-> s, mant |-> q1, exp |-> e + k]

\* float(n) of the integer n
IntF(n) == RoundF(IF n < 0 THEN 0 - 1 ELSE 1, BigOf(Abs(n)), 0, FALSE)

NegF(a) == IF isnaF(a) \/ a.mant = <<>> THEN a ELSE [a EXCEPT !.sign = 0 - a.sign]
AbsF(a) == IF isnaF(a) THEN a ELSE [a EXCEPT !.sign = 1]

\* a + b
AddF(a, b) ==
    IF isnaF(a) \/ isnaF(b) THEN NANF
    ELSE IF a.mant = <<>> THEN b
    ELSE IF b.mant = <<>> THEN a
    ELSE LET e == IF a.exp < b.exp THEN a.exp ELSE b.exp
             x == BigShl(a.mant, a.exp - e)
             y == BigShl(b.mant, b.exp - e)
             c == BigCmp(x, y)
         IN  IF a.sign = b.sign THEN RoundF(a.sign, BigAdd(x, y, 0), e, FALSE)
             ELSE IF c = 0 THEN ZeroF
             ELSE IF c > 0 THEN RoundF(a.sign, BigSub(x, y), e, FALSE)
             ELSE RoundF(b.sign, BigSub(y, x), e, FALSE)

\* a - b
SubF(a, b) == AddF(a, NegF(b))

\* a * b
MulF(a, b) ==
    IF isnaF(a) \/ isnaF(b) THEN NANF
    ELSE RoundF(a.sign * b.sign, BigMul(a.mant, b.mant), a.exp + b.exp, FALSE)

\* a / b, for b # 0 (every division of the scripts is behind a test of
\* its divisor)
DivF(a, b) ==
    IF isnaF(a) \/ isnaF(b) \/ b.mant = <<>> THEN NANF
    ELSE IF a.mant = <<>> THEN ZeroF
    ELSE LET qr == BigDivide(a.mant, b.mant, 56)
         IN  RoundF(a.sign * b.sign, qr[1], a.exp - b.exp - 55, qr[2] # <<>>)

\* -1, 0 or 1 as a < b, a = b or a > b, for two numbers
CmpF(a, b) ==
    LET sa == IF a.mant = <<>> THEN 0 ELSE a.sign
        sb == IF b.mant = <<>> THEN 0 ELSE b.sign
    IN  IF sa # sb THEN (IF sa < sb THEN 0 - 1 ELSE 1)
        ELSE IF sa = 0 THEN 0
        ELSE IF a.exp # b.exp THEN (IF a.exp < b.exp THEN 0 - sa ELSE sa)
        ELSE sa * BigCmp(a.mant, b.mant)

\* a < b and a <= b: False when either is NaN
LessF(a, b) == ~isnaF(a) /\ ~isnaF(b) /\ CmpF(a, b) < 0
LeqF(a, b) == ~isnaF(a) /\ ~isnaF(b) /\ CmpF(a, b) <= 0

\* The float written n / d in decimal (0.1264 is Dec(1264, 10000)): a
\* literal and a parsed text give the float nearest to the decimal, which
\* is the correctly rounded quotient of the two integers.
Dec(n, d) == DivF(IntF(n), IntF(d))

\* round(a, 2) of a number a, in hundredths: Python rounds the exact value
\* of the float, a tie to the even hundredth.
round2F(a) ==
    LET n == BigScale(a.mant, 100, 0)
        k == 0 - a.exp
        q == BigShr(n, k)
        up == BigBit(n, k - 1) = 1 /\ (BigLow(n, k - 1) \/ First(q) % 2 = 1)
    IN  IF a.mant = <<>> THEN 0
        ELSE IF a.exp >= 0 THEN a.sign * BigInt(BigShl(n, a.exp))
        ELSE a.sign * (BigInt(q) + (IF up THEN 1 ELSE 0))

\* F of the value of x, x being computed once.
Apply(F(_), x) == CHOOSE y \in {F(v) : v \in {x}} : TRUE

\* The function x |-> F(x) on the finite set D, every value computed once.
Table(F(_), D) == [x \in D |-> F(x)] @@ <<>>

\* F(x), read in the table T of F where T has x.
Lookup(T, F(_), x) == IF x \in DOMAIN T THEN T[x] ELSE F(x)

\* 'Over' in str(label) and 'Under' in str(label), for the labels predict.py
\* writes (f"Over {CTMCL:.2f}" / f"Under {CTMCL:.2f}") and str(None) = "None"
OverLabels == {"Over 2.50", "Over 3.50"}
UnderLabels == {"Under 2.50", "Under 1.50"}
ContainsOver(label) == label \in OverLabels
ContainsUnder(label) == label \in UnderLabels

(***************************************************************************)
(* Settlement: validate_predictions.py, validate_main.py, v3_validate.py   *)
(***************************************************************************)

Scripts == {"validate_predictions", "validate_main", "v3_validate"}
Matches == {101, 102}
MaxGoals == 2
Goals == 0..MaxGoals

VARIABLES
    script,              \* which script the behaviour is a history of
    tbl,                 \* the validator's table: match_id -> row
    pc,                  \* "idle" | "loop" | "summary"
    pending_matches,     \* rows of the run still to be processed, in order
    successful_updates,
    failed_fetches,
    api_status,          \* the loop's local `status`: last status read from the API
    tx_aborted,          \* the connection's transaction is in the failed state
    nan_cols,            \* the odds columns are read as float (NULL is NaN)
    working_api_config,  \* v3: index of the API configuration in use, 0 = none
    gtbl,                \* the graders' table: match_id -> row
    df,                  \* the grader's DataFrame: match_id -> fetched / graded row
    gpc,                 \* "idle" | "fetched" | "graded" | "done" | "failed"
    csv_df,              \* save_main: the rows of the CSV file, match_id -> row
    csv_order,           \* the match_ids of the CSV rows in the order of the file
    db_data,             \* save_main: the rows prepared for the INSERT
    dpc,                 \* save_main: "idle" | "loaded" | "transformed"
    warnings,            \* save_main: number of warnings printed by calculate_grade
    stbl,                \* save scripts: the (first) table written, match_id -> row
    stbl2,               \* save_main: the second table
    inserted,            \* save scripts: the counter `inserted` of the last insert loop
    errors,              \* save scripts: the counter `errors` / `insert_errors`
    wtbl,                \* save.py: the table as the open transaction sees it
    todo,                \* save.py: records of the current loop still to be written
    updated,             \* save.py: the counter `updated`
    update_errors,       \* save.py: the counter `update_errors`
    features,            \* predict.py: match_ids of the rows of extracted_features_complete.csv
    predictions_file,    \* predict.py: best_match_predictions.csv, a sequence of rows
    atbl,                \* aii.py: agility_soccer_v1, match_id -> the three ai_ fields
    apc,                 \* aii.py: "idle" | "check" | "process" | "done"
    to_check,            \* aii.py: CSV rows not yet checked, in file order
    matches_to_process,  \* aii.py: rows found to need AI predictions
    conn_aborted,        \* aii.py: the connection's transaction is in the failed state
    success_count,       \* aii.py
    error_count          \* aii.py

svars == <<tbl, pc, pending_matches, successful_updates, failed_fetches,
           api_status, tx_aborted, nan_cols, working_api_config>>
gvars == <<gtbl, df, gpc>>
mvars == <<stbl2, inserted, errors>>
fvars == <<wtbl, todo, updated, update_errors>>
pvars == <<features, predictions_file>>
avars == <<atbl, apc, to_check, matches_to_process, conn_aborted, success_count, error_count>>
xvars == <<mvars, fvars, pvars, avars>>
dvars == <<csv_df, csv_order, db_data, dpc, warnings, stbl, xvars>>
vars == <<script, svars, gvars, dvars>>

\* The variables of the scripts that are not running, at rest.
InsertIdle == stbl2 = <<>> /\ inserted = 0 /\ errors = 0
ForceIdle == wtbl = <<>> /\ todo = <<>> /\ updated = 0 /\ update_errors = 0
PredictIdle == features = <<>> /\ predictions_file = [state |-> "absent", rows |-> <<>>]
AiiIdle ==
    /\ atbl = <<>>
    /\ apc = "idle"
    /\ to_check = <<>>
    /\ matches_to_process = <<>>
    /\ conn_aborted = FALSE
    /\ success_count = 0
    /\ error_count = 0

HomeTeam == [m \in Matches |-> IF m = 101 THEN "Arsenal" ELSE "Leeds"]
AwayTeam == [m \in Matches |-> IF m = 101 THEN "Chelsea" ELSE "Everton"]

\* The prediction a row carries: label of the moneyline pick, label of the
\* totals pick and the dynamic line (CTMCL, hundredths) it was made against.
HomeOver == [predicted_winner |-> "Home Win", predicted_outcome |-> "Over 3.50", ctmcl |-> 350]
AwayUnder == [predicted_winner |-> "Away Win", predicted_outcome |-> "Under 1.50", ctmcl |-> 150]
DrawOver == [predicted_winner |-> "Draw", predicted_outcome |-> "Over 2.50", ctmcl |-> 250]
NoPick == [predicted_winner |-> "None", predicted_outcome |-> "None", ctmcl |-> 250]
Predictions == {HomeOver, AwayUnder, DrawOver, NoPick}

\* The odds a row carries: all quoted, none quoted, or quoted with zeros.
Quoted ==
    [home_odds |-> 2500, away_odds |-> 2675, draw_odds |-> 3404,
     over_2_5_odds |-> 1836, under_2_5_odds |-> 2000]
Unquoted ==
    [home_odds |-> NULL, away_odds |-> NULL, draw_odds |-> NULL,
     over_2_5_odds |-> NULL, under_2_5_odds |-> NULL]
ZeroQuoted ==
    [home_odds |-> 0, away_odds |-> 1800, draw_odds |-> 3100,
     over_2_5_odds |-> 0, under_2_5_odds |-> 1900]
OddsProfiles == {Quoted, Unquoted, ZeroQuoted}

\* The rows the table starts with: match 101 carries any prediction with any
\* odds, match 102 one of two.
RowInputs ==
    [m \in Matches |->
        IF m = 101 THEN Predictions \X OddsProfiles
        ELSE {<<AwayUnder, Quoted>>, <<HomeOver, Unquoted>>}]

\* A row as the save scripts insert it: not yet settled.
NewRow(m, p, o) ==
    [ home_team |-> HomeTeam[m], away_team |-> AwayTeam[m],
      ctmcl |-> p.ctmcl,
      predicted_outcome |-> p.predicted_outcome,
      predicted_winner |-> p.predicted_winner,
      over_2_5_odds |-> o.over_2_5_odds, under_2_5_odds |-> o.under_2_5_odds,
      home_odds |-> o.home_odds, away_odds |-> o.away_odds, draw_odds |-> o.draw_odds,
      status |-> "PENDING",
      actual_winner |-> NULLS, actual_over_under |-> NULLS,
      actual_home_team_goals |-> NULL, actual_away_team_goals |-> NULL,
      actual_total_goals |-> NULL,
      profit_loss_outcome |-> NULL, profit_loss_winner |-> NULL ]

\* What one request to the results API can come back with: match data whose
\* status is "complete" (with the score), one of the void statuses or any
\* other status ("incomplete"); or no match data at all (success false, an
\* empty body, invalid JSON, HTTP 422, another HTTP error, a timeout, any
\* other exception).
VoidKinds == {"cancelled", "postponed", "abandoned"}
DataKinds == {"complete", "incomplete"} \cup VoidKinds
FailureKinds == {"nodata", "empty", "badjson", "http422", "http500", "timeout", "error"}
Responses ==
    [kind : {"complete"}, homeGoalCount : Goals, awayGoalCount : Goals]
    \cup [kind : (DataKinds \ {"complete"}) \cup FailureKinds,
          homeGoalCount : {0}, awayGoalCount : {0}]

\* status = match_data.get('status', ''), reached only when the response
\* carries match data; otherwise the local keeps its previous value
status_read(resp, previous) ==
    IF resp.kind \in DataKinds THEN resp.kind ELSE previous

\* (a variant that takes every final status for a result)
is_complete_or_void(resp) == resp.kind \in {"complete"} \cup VoidKinds

\* if status == 'complete':
is_complete(resp) == resp.kind = "complete"

\* elif status in ['cancelled', 'postponed', 'abandoned']:
is_void(resp) == resp.kind \in VoidKinds

Upper == [k \in VoidKinds |->
            IF k = "cancelled" THEN "CANCELLED"
            ELSE IF k = "postponed" THEN "POSTPONED" ELSE "ABANDONED"]

RECURSIVE Ascending(_)
Ascending(S) ==
    IF S = {} THEN <<>>
    ELSE LET lo == CHOOSE x \in S : \A y \in S : x <= y
         IN  <<lo>> \o Ascending(S \ {lo})

Orders(S) == {q \in [1..Cardinality(S) -> S] : \A i, j \in 1..Cardinality(S) : i # j => q[i] # q[j]}

\* ---- validate_predictions.py / validate_main.py ----

\* round(odds - 1, 2) in hundredths, for odds that are the float written
\* x / 1000: the odds are the float nearest to the decimal, the subtraction
\* and the rounding are those of floats.
float_odds_minus_1(x) == round2F(SubF(Dec(x, 1000), IntF(1)))

\* float_odds_minus_1 of the odds the rows of the table quote
QuotedOdds ==
    UNION {{o.home_odds, o.away_odds, o.draw_odds, o.over_2_5_odds, o.under_2_5_odds} :
              o \in OddsProfiles} \ {NULL}
QuotedProfit == Table(float_odds_minus_1, QuotedOdds)

\* round(odds - 1, 2) on a float, NaN staying NaN
round_odds_minus_1(odds) ==
    IF odds = NAN THEN NAN
    ELSE IF odds \in DOMAIN QuotedProfit THEN QuotedProfit[odds]
    ELSE float_odds_minus_1(odds)

\* round(odds - 1, 2) on the odds of a row: a float when the odds columns
\* are double precision, a Decimal (exact arithmetic) when they are numeric
round_profit(odds, float) ==
    IF float THEN round_odds_minus_1(odds) ELSE round2(odds - 1000)

\* (a variant that gives a tie to the home side)
actual_winner_ge(row, home_score, away_score) ==
    IF home_score >= away_score THEN row.home_team
    ELSE IF away_score > home_score THEN row.away_team
    ELSE "Draw"

actual_winner(row, home_score, away_score) ==
    IF home_score > away_score THEN row.home_team
    ELSE IF away_score > home_score THEN row.away_team
    ELSE "Draw"

\* total_goals > 2.5
actual_over_under(total_goals) ==
    IF total_goals * 10 > 25 THEN "Over 2.5" ELSE "Under 2.5"

profit_loss_ou(predicted_ou, total_goals, odds_over, odds_under, float) ==
    IF ContainsOver(predicted_ou)
    THEN IF total_goals * 10 > 25
         THEN IF ~isna(odds_over) THEN round_profit(odds_over, float) ELSE 0
         ELSE 0 - 100
    ELSE IF total_goals * 10 <= 25
         THEN IF ~isna(odds_under) THEN round_profit(odds_under, float) ELSE 0
         ELSE 0 - 100

\* validate_main.py tests the label it has just computed instead of the total
profit_loss_ou_main(predicted_ou, actual_ou, odds_over, odds_under, float) ==
    IF ContainsOver(predicted_ou)
    THEN IF actual_ou = "Over 2.5"
         THEN IF ~isna(odds_over) THEN round_profit(odds_over, float) ELSE 0
         ELSE 0 - 100
    ELSE IF actual_ou = "Under 2.5"
         THEN IF ~isna(odds_under) THEN round_profit(odds_under, float) ELSE 0
         ELSE 0 - 100

profit_loss_ml(row, winner, float) ==
    IF row.predicted_winner = "Home Win"
    THEN IF winner = row.home_team
         THEN IF ~isna(row.home_odds) THEN round_profit(row.home_odds, float) ELSE 0
         ELSE 0 - 100
    ELSE IF row.predicted_winner = "Away Win"
    THEN IF winner = row.away_team
         THEN IF ~isna(row.away_odds) THEN round_profit(row.away_odds, float) ELSE 0
         ELSE 0 - 100
    ELSE IF row.predicted_winner = "Draw"
    THEN IF winner = "Draw"
         THEN IF ~isna(row.draw_odds) THEN round_profit(row.draw_odds, float) ELSE 0
         ELSE 0 - 100
    ELSE 0

\* (a variant that validates every prediction of the date again)
pending_filter_all(t) == Matches

\* pending_matches: status == 'PENDING' or actual_winner is null
pending_filter(t) ==
    {m \in Matches : t[m].status = "PENDING" \/ t[m].actual_winner = NULLS}

\* The UPDATE of a complete match
settled_row(row, resp, float) ==
    LET home_score == resp.homeGoalCount
        away_score == resp.awayGoalCount
        total_goals == home_score + away_score
        winner == actual_winner(row, home_score, away_score)
        over_under == actual_over_under(total_goals)
    IN  [row EXCEPT
            !.actual_winner = winner,
            !.actual_over_under = over_under,
            !.actual_home_team_goals = home_score,
            !.actual_away_team_goals = away_score,
            !.actual_total_goals = total_goals,
            !.status = "COMPLETE",
            !.profit_loss_outcome =
                IF script = "validate_main"
                THEN profit_loss_ou_main(row.predicted_outcome, over_under,
                                         row.over_2_5_odds, row.under_2_5_odds, float)
                ELSE profit_loss_ou(row.predicted_outcome, total_goals,
                                    row.over_2_5_odds, row.under_2_5_odds, float),
            !.profit_loss_winner = profit_loss_ml(row, winner, float)]

ValidateStart ==
    /\ script \in {"validate_predictions", "validate_main"}
    /\ pc \in {"idle", "summary"}
    /\ LET pending == pending_filter(tbl)
       IN  IF pending = {}
           THEN /\ pc' = "idle"                       \* exit(0)
                /\ pending_matches' = <<>>
           ELSE /\ pc' = "loop"
                /\ pending_matches' = Ascending(pending)  \* ORDER BY match_id
    /\ successful_updates' = 0
    /\ failed_fetches' = 0
    /\ api_status' = ""
    /\ tx_aborted' = FALSE
    /\ UNCHANGED <<gvars, dvars>>
    /\ UNCHANGED <<script, tbl, nan_cols, working_api_config>>

\* One iteration of the loop over pending_matches: the request answered by
\* resp, the UPDATE (if one is issued) succeeding iff db_ok.
ValidateProcess(resp, db_ok) ==
    /\ script \in {"validate_predictions", "validate_main"}
    /\ pc = "loop"
    /\ pending_matches # <<>>
    /\ LET match_id == Head(pending_matches)
           row == tbl[match_id]
           executes == db_ok /\ ~tx_aborted
       IN  /\ pending_matches' = Tail(pending_matches)
           /\ api_status' = status_read(resp, api_status)
           /\ IF is_complete(resp)
              THEN IF executes
                   THEN /\ tbl' = [tbl EXCEPT ![match_id] = settled_row(row, resp, nan_cols)]
                        /\ successful_updates' = successful_updates + 1
                        /\ UNCHANGED <<failed_fetches, tx_aborted>>
                   ELSE /\ failed_fetches' = failed_fetches + 1   \* except Exception
                        /\ tx_aborted' = TRUE
                        /\ UNCHANGED <<tbl, successful_updates>>
              ELSE IF is_void(resp)
              THEN IF executes
                   THEN /\ tbl' = [tbl EXCEPT ![match_id].status = Upper[resp.kind]]
                        /\ failed_fetches' = failed_fetches + 1
                        /\ UNCHANGED <<successful_updates, tx_aborted>>
                   ELSE /\ failed_fetches' = failed_fetches + 1   \* except Exception
                        /\ tx_aborted' = TRUE
                        /\ UNCHANGED <<tbl, successful_updates>>
              ELSE /\ failed_fetches' = failed_fetches + 1
                   /\ UNCHANGED <<tbl, successful_updates, tx_aborted>>
    /\ UNCHANGED <<gvars, dvars>>
    /\ UNCHANGED <<script, pc, nan_cols, working_api_config>>

\* After the loop: the final conn.commit() ends a failed transaction, the
\* statistics queries only read, the summary prints the counters.
ValidateFinish ==
    /\ script \in {"validate_predictions", "validate_main"}
    /\ pc = "loop"
    /\ pending_matches = <<>>
    /\ pc' = "summary"
    /\ tx_aborted' = FALSE
    /\ UNCHANGED <<gvars, dvars>>
    /\ UNCHANGED <<script, tbl, pending_matches, successful_updates, failed_fetches,
                   api_status, nan_cols, working_api_config>>

\* ---- v3_validate.py ----

\* float(x) if x else 0: None and 0 are falsy, NaN is truthy.  A NULL of the
\* table arrives as None in an object column and as NaN in a float column.
odds_v3(x, nan) ==
    IF x = NULL THEN (IF nan THEN NAN ELSE 0) ELSE x

profit_loss_winner_v3(row, winner, nan) ==
    IF row.predicted_winner = "Home Win" /\ winner = row.home_team
    THEN round_odds_minus_1(odds_v3(row.home_odds, nan))
    ELSE IF row.predicted_winner = "Away Win" /\ winner = row.away_team
    THEN round_odds_minus_1(odds_v3(row.away_odds, nan))
    ELSE IF row.predicted_winner = "Draw" /\ winner = "Draw"
    THEN round_odds_minus_1(odds_v3(row.draw_odds, nan))
    ELSE 0 - 100

\* WHERE status = 'PENDING'
pending_filter_v3(t) == {m \in Matches : t[m].status = "PENDING"}

settled_row_v3(row, resp, nan) ==
    LET home_score == resp.homeGoalCount
        away_score == resp.awayGoalCount
        winner == actual_winner(row, home_score, away_score)
    IN  [row EXCEPT
            !.actual_winner = winner,
            !.actual_home_team_goals = home_score,
            !.actual_away_team_goals = away_score,
            !.actual_total_goals = home_score + away_score,
            !.status = "SETTLED",
            !.profit_loss_outcome = NULL,
            !.profit_loss_winner = profit_loss_winner_v3(row, winner, nan)]

\* Fetch of the PENDING rows and the test of the three API configurations
\* on the first row: works[i] says whether configuration i answers with data.
V3Start(order, works, nan) ==
    /\ script = "v3_validate"
    /\ pc \in {"idle", "summary"}
    /\ LET pending == pending_filter_v3(tbl)
           found == {i \in 1..3 : works[i]}
       IN  IF pending = {} \/ found = {}
           THEN /\ pc' = "idle"                       \* exit(0) / exit(1)
                /\ pending_matches' = <<>>
                /\ working_api_config' = 0
                /\ nan_cols' = FALSE
           ELSE /\ order \in Orders(pending)          \* ORDER BY date DESC
                /\ pc' = "loop"
                /\ pending_matches' = order
                /\ working_api_config' = CHOOSE i \in found : \A j \in found : i <= j
                /\ nan_cols' = nan
    /\ successful_updates' = 0
    /\ failed_fetches' = 0
    /\ api_status' = ""
    /\ UNCHANGED <<gvars, dvars>>
    /\ UNCHANGED <<script, tbl, tx_aborted>>

V3Process(resp, db_ok) ==
    /\ script = "v3_validate"
    /\ pc = "loop"
    /\ pending_matches # <<>>
    /\ LET match_id == Head(pending_matches)
           row == tbl[match_id]
       IN  /\ pending_matches' = Tail(pending_matches)
           /\ api_status' = status_read(resp, api_status)
           /\ IF is_complete(resp)
              THEN /\ tbl' = IF db_ok
                             THEN [tbl EXCEPT ![match_id] = settled_row_v3(row, resp, nan_cols)]
                             ELSE tbl                  \* rollback()
                   /\ successful_updates' = successful_updates + 1
                   /\ UNCHANGED failed_fetches
              ELSE /\ failed_fetches' = failed_fetches + 1
                   /\ UNCHANGED <<tbl, successful_updates>>
    /\ UNCHANGED <<gvars, dvars>>
    /\ UNCHANGED <<script, pc, tx_aborted, nan_cols, working_api_config>>

V3Finish ==
    /\ script = "v3_validate"
    /\ pc = "loop"
    /\ pending_matches = <<>>
    /\ pc' = "summary"
    /\ UNCHANGED <<gvars, dvars>>
    /\ UNCHANGED <<script, tbl, pending_matches, successful_updates, failed_fetches,
                   api_status, tx_aborted, nan_cols, working_api_config>>

Init ==
    /\ script \in Scripts
    /\ \E r \in [Matches -> Predictions \X OddsProfiles] :
           /\ \A m \in Matches : r[m] \in RowInputs[m]
           /\ tbl = [m \in Matches |-> NewRow(m, r[m][1], r[m][2])]
    /\ pc = "idle"
    /\ pending_matches = <<>>
    /\ successful_updates = 0
    /\ failed_fetches = 0
    /\ api_status = ""
    /\ tx_aborted = FALSE
    /\ nan_cols \in (IF script = "v3_validate" THEN {FALSE} ELSE BOOLEAN)
    /\ working_api_config = 0
    /\ gtbl = <<>>
    /\ df = <<>>
    /\ gpc = "idle"
    /\ csv_df = <<>>
    /\ csv_order = <<>>
    /\ db_data = <<>>
    /\ dpc = "idle"
    /\ warnings = 0
    /\ stbl = <<>>
    /\ InsertIdle /\ ForceIdle /\ PredictIdle /\ AiiIdle

Next ==
    \/ ValidateStart
    \/ \E resp \in Responses, db_ok \in BOOLEAN : ValidateProcess(resp, db_ok)
    \/ ValidateFinish
    \/ \E order \in UNION {Orders(S) : S \in SUBSET Matches},
          works \in [1..3 -> BOOLEAN], nan \in BOOLEAN : V3Start(order, works, nan)
    \/ \E resp \in Responses, db_ok \in BOOLEAN : V3Process(resp, db_ok)
    \/ V3Finish

Spec == Init /\ [][Next]_vars

(***************************************************************************)
(* Settlement properties                                                   *)
(***************************************************************************)

Range(q) == {q[i] : i \in 1..Len(q)}

Settled(row) == row.status \in {"COMPLETE", "SETTLED"}

\* The fields a settlement writes, other than status
ResultFields(row) ==
    <<row.actual_winner, row.actual_over_under, row.actual_home_team_goals,
      row.actual_away_team_goals, row.actual_total_goals,
      row.profit_loss_outcome, row.profit_loss_winner>>

\* The moneyline bet of a settled row: the side picked, its odds, whether the
\* final score makes it the actual side
PicksSide(row) == row.predicted_winner \in {"Home Win", "Away Win", "Draw"}
PickedOdds(row) ==
    IF row.predicted_winner = "Home Win" THEN row.home_odds
    ELSE IF row.predicted_winner = "Away Win" THEN row.away_odds
    ELSE row.draw_odds
PickWon(row) ==
    \/ row.predicted_winner = "Home Win"
          /\ row.actual_home_team_goals > row.actual_away_team_goals
    \/ row.predicted_winner = "Away Win"
          /\ row.actual_away_team_goals > row.actual_home_team_goals
    \/ row.predicted_winner = "Draw"
          /\ row.actual_home_team_goals = row.actual_away_team_goals

\* The totals bet of a settled row
PicksTotal(row) == ContainsOver(row.predicted_outcome) \/ ContainsUnder(row.predicted_outcome)
TotalOdds(row) ==
    IF ContainsOver(row.predicted_outcome) THEN row.over_2_5_odds ELSE row.under_2_5_odds
TotalWon(row) ==
    IF ContainsOver(row.predicted_outcome)
    THEN row.actual_total_goals >= 3
    ELSE row.actual_total_goals <= 2

\* round(odds - 1, 2) in the arithmetic of the script: v3_validate.py
\* converts the odds to float, the other two compute on what the column gives
Rounded(odds) == round_profit(odds, script = "v3_validate" \/ nan_cols)

MoneylineConvention(row) ==
    (PicksSide(row) /\ PickedOdds(row) # NULL) =>
        row.profit_loss_winner =
            IF PickWon(row) THEN Rounded(PickedOdds(row)) ELSE 0 - 100

TotalsConvention(row) ==
    (PicksTotal(row) /\ TotalOdds(row) # NULL) =>
        row.profit_loss_outcome =
            IF TotalWon(row) THEN Rounded(TotalOdds(row)) ELSE 0 - 100

\* C1: every settled match with odds on the predicted side stores
\* round(odds - 1, 2) when the predicted side is the actual side and -1.0
\* when it is not, for the moneyline bet and for the over/under bet.
C1_SignConvention ==
    \A m \in Matches :
        Settled(tbl[m]) => MoneylineConvention(tbl[m]) /\ TotalsConvention(tbl[m])

\* What does hold: the moneyline bet in all three validators, the over/under
\* bet in validate_predictions.py and validate_main.py.
SignConventionWhereComputed ==
    \A m \in Matches :
        Settled(tbl[m]) =>
            /\ MoneylineConvention(tbl[m])
            /\ script # "v3_validate" => TotalsConvention(tbl[m])

\* C2: once a row is settled (COMPLETE / SETTLED) no step of any later run
\* selects it for validation or rewrites any of its fields.
C2_SettledIsTerminal ==
    [][\A m \in Matches :
          Settled(tbl[m]) =>
              /\ tbl'[m] = tbl[m]
              /\ m \notin Range(pending_matches')]_vars

\* A later run has gone through its loop and printed its summary without
\* updating anything, while a row settled by an earlier run is in the table.
C2_Witness ==
    /\ pc = "summary"
    /\ successful_updates = 0
    /\ failed_fetches > 0
    /\ \E m \in Matches : Settled(tbl[m])

\* C3: a settled match whose odds on the predicted side are missing stores
\* profit/loss 0 for that bet, in every validator.
C3_MissingOddsPush ==
    \A m \in Matches :
        Settled(tbl[m]) =>
            /\ (PicksSide(tbl[m]) /\ PickedOdds(tbl[m]) = NULL)
                   => tbl[m].profit_loss_winner = 0
            /\ (PicksTotal(tbl[m]) /\ TotalOdds(tbl[m]) = NULL)
                   => tbl[m].profit_loss_outcome = 0

\* What does hold: validate_predictions.py and validate_main.py store 0 for
\* a bet that won with its odds missing and -1.0 for one that lost;
\* v3_validate.py reads the missing odds as 0 (or NaN) and stores -1.0 (or
\* NaN) for a moneyline bet that won.
MissingOddsAsCoded ==
    \A m \in Matches :
        LET row == tbl[m]
        IN  Settled(row) =>
            /\ (script # "v3_validate" /\ PicksSide(row) /\ PickedOdds(row) = NULL)
                   => row.profit_loss_winner = IF PickWon(row) THEN 0 ELSE 0 - 100
            /\ (script # "v3_validate" /\ PicksTotal(row) /\ TotalOdds(row) = NULL)
                   => row.profit_loss_outcome = IF TotalWon(row) THEN 0 ELSE 0 - 100
            /\ (script = "v3_validate" /\ PicksSide(row) /\ PickedOdds(row) = NULL)
                   => row.profit_loss_winner \in {0 - 100, NAN}

\* C4: a step changes the actual-result and profit/loss fields of a row only
\* when the status it has just read from the API is "complete"; a step that
\* counts a failed fetch (any other status, any fetch failure) leaves those
\* fields of every row as they were.
C4_OnlyCompleteIsSettled ==
    [][/\ \A m \in Matches :
             ResultFields(tbl'[m]) # ResultFields(tbl[m]) => api_status' = "complete"
       /\ failed_fetches' = failed_fetches + 1 =>
             \A m \in Matches : ResultFields(tbl'[m]) = ResultFields(tbl[m])]_vars

\* A run ended with a cancelled match and a failed fetch and wrote no result.
C4_Witness ==
    /\ pc = "summary"
    /\ failed_fetches = 2
    /\ \E m \in Matches : tbl[m].status = "CANCELLED"
    /\ \E m \in Matches : tbl[m].status = "PENDING"
    /\ \A m \in Matches : ResultFields(tbl[m]) = ResultFields(NewRow(m, NoPick, Quoted))

\* C5: the stored actual winner is Draw for equal scores, the home team for a
\* higher home score and the away team for a higher away score; the stored
\* over/under side is Over exactly when the total is at least 3 and the
\* over/under bet is settled against that same fixed line, whatever line
\* (ctmcl) the prediction was made against.
C5_ActualSide ==
    \A m \in Matches :
        LET row == tbl[m]
            hg == row.actual_home_team_goals
            ag == row.actual_away_team_goals
        IN  Settled(row) =>
            /\ row.actual_total_goals = hg + ag
            /\ hg = ag => row.actual_winner = "Draw"
            /\ hg > ag => row.actual_winner = row.home_team
            /\ hg < ag => row.actual_winner = row.away_team
            /\ script # "v3_validate" =>
                  /\ row.actual_over_under = "Over 2.5" <=> hg + ag >= 3
                  /\ row.actual_over_under = "Under 2.5" <=> hg + ag <= 2
                  /\ (PicksTotal(row) /\ TotalOdds(row) > 1000)
                         => (row.profit_loss_outcome > 0 <=> TotalWon(row))

\* An Over pick made against the line 3.50 is settled as won on a total of 3,
\* and a 1-1 draw is stored as Draw.
C5_Witness ==
    /\ \E m \in Matches :
          /\ tbl[m].status = "COMPLETE"
          /\ tbl[m].ctmcl = 350
          /\ tbl[m].actual_total_goals = 3
          /\ tbl[m].actual_over_under = "Over 2.5"
          /\ tbl[m].profit_loss_outcome = 84
    /\ \E m \in Matches :
          /\ tbl[m].actual_home_team_goals = 1
          /\ tbl[m].actual_away_team_goals = 1
          /\ tbl[m].actual_winner = "Draw"

(***************************************************************************)
(* Grading: new_ml_grade.py (moneyline) and ou_grade.py (totals)           *)
(*                                                                         *)
(* pd.read_sql hands the numeric columns to the graders as floats: a       *)
(* column a row holds in tenths or thousandths is the float nearest to     *)
(* that decimal, and every sum, difference, quotient, product and          *)
(* comparison of a grader is the one of floats.                            *)
(***************************************************************************)

GraderScripts == {"new_ml_grade", "ou_grade"}

\* ---- rows of the graded table ----

\* predicted home / away goals, in tenths
GoalInputs ==
    {<<17, 5>>, <<10, 11>>, <<12, 12>>, <<16, 10>>, <<25, 15>>, <<24, 15>>,
     <<16, 15>>, <<10, 10>>, <<1, 2>>, <<2, 3>>, <<3, 29>>, <<NULL, 11>>}

WinnerInputs == {"Home Win", "Away Win", "Draw", "None"}

\* home, away, draw odds
MoneylineOdds ==
    {<<1500, 6000, 4000>>, <<1500, 1896, 4000>>, <<1500, 4596, 4000>>,
     <<1500, 9291, 4000>>, <<2100, 3400, 3400>>, <<0, 1800, 3100>>, <<2000, 0 - 1500, 3000>>,
     <<1500, 6000, NULL>>, <<2500, NULL, 3400>>, <<NULL, 2876, 3404>>,
     <<100001, 100000, 250000>>, <<100000, 99999, 250000>>}

OutcomeInputs == {"Over 2.50", "Under 2.50", "Over 3.50", "Under 1.50", "None"}

\* over, under odds
TotalsOdds ==
    {<<1800, 2000>>, <<2000, 1800>>, <<1900, 1900>>, <<2000, 2100>>, <<1950, 2100>>,
     <<4267, 1600>>,
     <<0, 1900>>, <<1836, 0 - 110>>, <<NULL, 1900>>, <<1836, NULL>>}

GradeRow(g, w, mo, o, to) ==
    [predicted_home_goals |-> g[1],
     predicted_away_goals |-> g[2],
     predicted_winner |-> w,
     home_odds |-> mo[1],
     away_odds |-> mo[2],
     draw_odds |-> mo[3],
     predicted_outcome |-> o,
     over_2_5_odds |-> to[1],
     under_2_5_odds |-> to[2],
     ml_grade |-> NULLS,
     ml_confidence |-> NULLF,
     ou_grade |-> NULLS,
     ou_confidence |-> NULLF]

\* Rows the moneyline grader is run on (the totals columns do not matter to
\* it) and rows the totals grader is run on.
MoneylineRows ==
    {GradeRow(g, w, mo, "Over 2.50", <<1800, 2000>>) :
        g \in GoalInputs, w \in WinnerInputs, mo \in MoneylineOdds}
TotalsRows ==
    {GradeRow(g, "Home Win", <<1500, 6000, 4000>>, o, to) :
        g \in GoalInputs, o \in OutcomeInputs, to \in TotalsOdds}
SecondGoals == {<<14, 11>>, <<12, 12>>}
SecondMoneylineOdds == {<<2500, 2876, 3404>>, <<0, 1800, 3100>>}
SecondTotalsOdds == {<<1836, 2000>>, <<NULL, NULL>>}
SecondRows ==
    {GradeRow(<<14, 11>>, "Away Win", <<2500, 2876, 3404>>, "Under 2.50", <<1836, 2000>>),
     GradeRow(<<12, 12>>, "None", <<0, 1800, 3100>>, "None", <<NULL, NULL>>)}

\* ---- the floats of the columns and of the literals ----

TenthsF(x) == Dec(x, 10)
ThousandthsF(x) == Dec(x, 1000)
MillionthsF(x) == Dec(x, 1000000)

\* The float of every predicted-goals value of the rows (and of the lines
\* 1.5, 2.5 and 3.5), and of every odds of the rows
GoalFloats ==
    Table(TenthsF, (UNION {{g[1], g[2]} : g \in GoalInputs \cup SecondGoals}
                       \cup {15, 25, 35}) \ {NULL})
OddsFloats ==
    Table(ThousandthsF,
          (UNION {{o[1], o[2], o[3]} : o \in MoneylineOdds \cup SecondMoneylineOdds}
              \cup UNION {{o[1], o[2]} : o \in TotalsOdds \cup SecondTotalsOdds}) \ {NULL})

\* A goals column (tenths) and an odds column (thousandths) as read by
\* pd.read_sql: a float, NaN for NULL
goals_float(x) == IF isna(x) THEN NANF ELSE Lookup(GoalFloats, TenthsF, x)
odds_float(x) == IF isna(x) THEN NANF ELSE Lookup(OddsFloats, ThousandthsF, x)

\* new_ml_grade.py thresholds, in millionths
Q1_THRESHOLD == 126400
Q2_THRESHOLD == 306400
Q3_THRESHOLD == 619400

\* ou_grade.py thresholds, in millionths
OU_A_THRESHOLD == 750000
OU_B_THRESHOLD == 700000
OU_C_THRESHOLD == 266667

\* The float literal of a threshold given in millionths
ThresholdFloats ==
    Table(MillionthsF, {Q1_THRESHOLD, Q2_THRESHOLD, Q3_THRESHOLD,
                        OU_A_THRESHOLD, OU_B_THRESHOLD, OU_C_THRESHOLD,
                        OU_C_THRESHOLD + 33})
Millionths(t) == Lookup(ThresholdFloats, MillionthsF, t)

\* c < t, c <= t and c >= t for a float c and a threshold t given in
\* millionths: the comparison of c with the float literal of t.
LessThan(c, t) == LessF(c, Millionths(t))
AtMost(c, t) == LeqF(c, Millionths(t))
AtLeast(c, t) == LeqF(Millionths(t), c)

\* 10^-k as a float literal (1e-5, 1e-8)
NegativePowerOfTen(k) == Dec(1, 10^k)
Tolerances == Table(NegativePowerOfTen, {5, 8})

\* np.isclose(a, b, rtol=1e-5) with the default atol=1e-8, on two floats
\* that are numbers: abs(a - b) <= atol + rtol * abs(b), each operation
\* rounded.
isclose(a, b) ==
    LeqF(AbsF(SubF(a, b)), AddF(Tolerances[8], MulF(Tolerances[5], AbsF(b))))

\* ---- new_ml_grade.py ----

get_pred_side(row) ==
    IF row.predicted_winner = "Home Win" THEN "home"
    ELSE IF row.predicted_winner = "Away Win" THEN "away"
    ELSE IF row.predicted_winner = "Draw" THEN "draw"
    ELSE "nan"

get_pred_side_odds(row) ==
    IF row.pred_side = "home" THEN row.home_odds
    ELSE IF row.pred_side = "away" THEN row.away_odds
    ELSE IF row.pred_side = "draw" THEN row.draw_odds
    ELSE NAN

\* df[["home_odds", "away_odds", "draw_odds"]].min(axis=1): pandas skips
\* the missing values of a row and gives NaN only when all are missing.
min_all_odds(row) ==
    LET present == {x \in {row.home_odds, row.away_odds, row.draw_odds} : ~isna(x)}
    IN  IF present = {} THEN NAN
        ELSE CHOOSE x \in present : \A y \in present : x <= y

\* (a variant that never takes the favourite branch)
calc_market_factor_underdog(row) ==
    LET po == row.pred_side_odds
        min_odds == row.min_all_odds
    IN  IF isna(po) \/ isna(min_odds) \/ po <= 0 \/ min_odds <= 0 THEN NANF
        ELSE DivF(odds_float(po), odds_float(min_odds))

calc_market_factor(row) ==
    LET po == row.pred_side_odds
        min_odds == row.min_all_odds
    IN  IF isna(po) \/ isna(min_odds) \/ po <= 0 \/ min_odds <= 0 THEN NANF
        ELSE IF isclose(odds_float(po), odds_float(min_odds))
        THEN DivF(IntF(1), odds_float(po))
        ELSE DivF(odds_float(po), odds_float(min_odds))

\* (a variant that gives a confidence on a threshold the better grade)
grade_by_confidence_inverted_le(confidence) ==
    IF isnaF(confidence) THEN NULLS
    ELSE IF AtMost(confidence, Q1_THRESHOLD) THEN "A"
    ELSE IF AtMost(confidence, Q2_THRESHOLD) THEN "B"
    ELSE IF AtMost(confidence, Q3_THRESHOLD) THEN "C"
    ELSE "D"

\* (a variant that grades like the totals grader: higher is better)
grade_by_confidence_higher_better(confidence) ==
    IF isnaF(confidence) THEN NULLS
    ELSE IF AtLeast(confidence, Q3_THRESHOLD) THEN "A"
    ELSE IF AtLeast(confidence, Q2_THRESHOLD) THEN "B"
    ELSE IF AtLeast(confidence, Q1_THRESHOLD) THEN "C"
    ELSE "D"

grade_by_confidence_inverted(confidence) ==
    IF isnaF(confidence) THEN NULLS
    ELSE IF LessThan(confidence, Q1_THRESHOLD) THEN "A"
    ELSE IF LessThan(confidence, Q2_THRESHOLD) THEN "B"
    ELSE IF LessThan(confidence, Q3_THRESHOLD) THEN "C"
    ELSE "D"

\* (a variant that leaves a missing grade missing)
fillna_keep(grade) == grade

\* Series.fillna("D") on one value
fillna_D(grade) == IF grade = NULLS THEN "D" ELSE grade

\* (a variant that does not clip)
pct_noclip(c) == IF isnaF(c) THEN NANF ELSE MulF(c, IntF(100))

\* (x * 100).clip(upper=100) on one value; NaN stays NaN
pct_clip(c) ==
    IF isnaF(c) THEN NANF
    ELSE Apply(LAMBDA pct : IF LessF(IntF(100), pct) THEN IntF(100) ELSE pct,
               MulF(c, IntF(100)))

\* Series.fillna(0) on one value
fillna_0(c) == IF isnaF(c) THEN ZeroF ELSE c

\* a - b on two goal columns and Series.abs(); NaN if a value is missing
sub_goals(a, b) == SubF(goals_float(a), goals_float(b))
abs_goals(x) == IF isnaF(x) THEN NANF ELSE AbsF(x)

\* df[column] = value on one row of the DataFrame
assign(row, column, value) ==
    [f \in DOMAIN row \cup {column} |-> IF f = column THEN value ELSE row[f]]

\* calculate_grades on one row of the DataFrame (every step is row-wise):
\* the columns are added one after the other, each from the row so far.
\* (read from the last line up)
calculate_grades_row(row) ==
    Apply(LAMBDA r : assign(r, "ml_grade",
                            fillna_D(grade_by_confidence_inverted(r.cal_confidence))),
    Apply(LAMBDA r : assign(r, "ml_confidence", pct_clip(r.cal_confidence)),
    Apply(LAMBDA r : assign(r, "cal_confidence",
                            MulF(r.abs_pred_goal_diff, r.market_factor)),
    Apply(LAMBDA r : assign(r, "market_factor", calc_market_factor(r)),
    Apply(LAMBDA r : assign(r, "min_all_odds", min_all_odds(r)),
    Apply(LAMBDA r : assign(r, "pred_side_odds", get_pred_side_odds(r)),
    Apply(LAMBDA r : assign(r, "pred_side", get_pred_side(r)),
    Apply(LAMBDA r : assign(r, "abs_pred_goal_diff",
                            abs_goals(sub_goals(r.predicted_home_goals,
                                                r.predicted_away_goals))),
          row))))))))

\* The columns calculate_grades reads of a record: its goals g, its pick w
\* and its odds mo.
MlInput(m, g, w, mo) ==
    [match_id |-> m,
     predicted_home_goals |-> g[1],
     predicted_away_goals |-> g[2],
     predicted_winner |-> w,
     home_odds |-> mo[1],
     away_odds |-> mo[2],
     draw_odds |-> mo[3]]

\* calculate_grades_row of every record that can be made of the goals,
\* picks and odds of the rows, each computed once.
MlKeys ==
    (GoalInputs \cup SecondGoals) \X WinnerInputs
        \X (MoneylineOdds \cup SecondMoneylineOdds)
GradedMlRow(k) == calculate_grades_row(MlInput(0, k[1], k[2], k[3]))
GradedMl == Table(GradedMlRow, MlKeys)

\* The graded record of given inputs.
MlGradeOf(m, g, w, mo) ==
    [Lookup(GradedMl, GradedMlRow, <<g, w, mo>>) EXCEPT !.match_id = m]

\* calculate_grades: the row-wise calculation on every row of the frame.
calculate_grades(frame) ==
    [m \in DOMAIN frame |->
        MlGradeOf(frame[m].match_id,
                  <<frame[m].predicted_home_goals, frame[m].predicted_away_goals>>,
                  frame[m].predicted_winner,
                  <<frame[m].home_odds, frame[m].away_odds, frame[m].draw_odds>>)]

\* (a variant that fetches the graded records too)
fetch_any_grade_records(t) ==
    LET S == {m \in DOMAIN t : t[m].home_odds # NULL}
    IN  [m \in S |->
           [match_id |-> m,
            predicted_home_goals |-> t[m].predicted_home_goals,
            predicted_away_goals |-> t[m].predicted_away_goals,
            predicted_winner |-> t[m].predicted_winner,
            home_odds |-> t[m].home_odds,
            away_odds |-> t[m].away_odds,
            draw_odds |-> t[m].draw_odds]]

\* fetch_null_grade_records: WHERE ml_grade IS NULL AND home_odds IS NOT NULL
fetch_null_grade_records(t) ==
    LET S == {m \in DOMAIN t : t[m].ml_grade = NULLS /\ t[m].home_odds # NULL}
    IN  [m \in S |->
           [match_id |-> m,
            predicted_home_goals |-> t[m].predicted_home_goals,
            predicted_away_goals |-> t[m].predicted_away_goals,
            predicted_winner |-> t[m].predicted_winner,
            home_odds |-> t[m].home_odds,
            away_odds |-> t[m].away_odds,
            draw_odds |-> t[m].draw_odds]]

\* ---- ou_grade.py ----

\* a + b on two goal columns; NaN if a value is missing
add_goals(a, b) == AddF(goals_float(a), goals_float(b))

\* abs(total_predicted - 2.5)
distance_from_2_5(total_predicted) ==
    IF isnaF(total_predicted) THEN NANF
    ELSE AbsF(SubF(total_predicted, goals_float(25)))

\* Market favorite: Over only when its odds are strictly the lower ones.
market_favorite(row) == IF row.over_2_5_odds < row.under_2_5_odds THEN "over" ELSE "under"
min_odds_ou(row) ==
    IF row.over_2_5_odds < row.under_2_5_odds THEN row.over_2_5_odds ELSE row.under_2_5_odds
max_odds_ou(row) ==
    IF row.over_2_5_odds < row.under_2_5_odds THEN row.under_2_5_odds ELSE row.over_2_5_odds

\* Prediction direction, for a label that names a side.
pred_direction(row) == IF ContainsOver(row.predicted_outcome) THEN "over" ELSE "under"
pred_odds_ou(row) ==
    IF ContainsOver(row.predicted_outcome) THEN row.over_2_5_odds ELSE row.under_2_5_odds

\* Market factor, for two odds that are positive numbers.
market_factor_ou(row) ==
    IF pred_direction(row) = market_favorite(row)
    THEN DivF(IntF(1), odds_float(pred_odds_ou(row)))
    ELSE DivF(odds_float(pred_odds_ou(row)), odds_float(min_odds_ou(row)))

\* (a variant that never dampens the distance)
distance_factor_plain(row) ==
    distance_from_2_5(add_goals(row.predicted_home_goals, row.predicted_away_goals))

\* Asymmetric distance adjustment, for predicted goals that are numbers,
\* given the two values computed at the top of the function.
distance_adjustment(row, total_predicted, distance_from_threshold) ==
    IF IF pred_direction(row) = "over"
       THEN LeqF(goals_float(25), total_predicted)
       ELSE LeqF(total_predicted, goals_float(25))
    THEN distance_from_threshold
    ELSE MulF(distance_from_threshold,
              DivF(odds_float(min_odds_ou(row)), odds_float(max_odds_ou(row))))

\* distance_factor of a row
distance_factor_ou(row) ==
    Apply(LAMBDA total_predicted :
              distance_adjustment(row, total_predicted, distance_from_2_5(total_predicted)),
          add_goals(row.predicted_home_goals, row.predicted_away_goals))

\* confidence if confidence >= 0 else np.nan
nan_if_negative(confidence) == IF LeqF(ZeroF, confidence) THEN confidence ELSE NANF

calculate_advanced_ou_confidence(row) ==
    LET over_odds == row.over_2_5_odds
        under_odds == row.under_2_5_odds
        predicted_ou == row.predicted_outcome
    IN  IF \/ isnaF(distance_from_2_5(add_goals(row.predicted_home_goals,
                                                row.predicted_away_goals)))
           \/ isna(over_odds)
           \/ isna(under_odds)
        THEN NANF
        ELSE IF over_odds <= 0 \/ under_odds <= 0 THEN NANF
        ELSE IF ~ContainsOver(predicted_ou) /\ ~ContainsUnder(predicted_ou) THEN NANF
        ELSE Apply(nan_if_negative, MulF(distance_factor_ou(row), market_factor_ou(row)))

\* (a variant with the C threshold rounded to 0.2667)
assign_ou_grade_rounded(confidence) ==
    IF isnaF(confidence) THEN "D"
    ELSE IF AtLeast(confidence, OU_A_THRESHOLD) THEN "A"
    ELSE IF AtLeast(confidence, OU_B_THRESHOLD) THEN "B"
    ELSE IF AtLeast(confidence, OU_C_THRESHOLD + 33) THEN "C"
    ELSE "D"

\* (a variant that grades like the moneyline grader: lower is better)
assign_ou_grade_lower_better(confidence) ==
    IF isnaF(confidence) THEN "D"
    ELSE IF LessThan(confidence, OU_C_THRESHOLD) THEN "A"
    ELSE IF LessThan(confidence, OU_B_THRESHOLD) THEN "B"
    ELSE IF LessThan(confidence, OU_A_THRESHOLD) THEN "C"
    ELSE "D"

assign_ou_grade(confidence) ==
    IF isnaF(confidence) THEN "D"
    ELSE IF AtLeast(confidence, OU_A_THRESHOLD) THEN "A"
    ELSE IF AtLeast(confidence, OU_B_THRESHOLD) THEN "B"
    ELSE IF AtLeast(confidence, OU_C_THRESHOLD) THEN "C"
    ELSE "D"

\* calculate_ou_grades on one row of the DataFrame (every step is row-wise)
\* (read from the last line up)
calculate_ou_grades_row(row) ==
    Apply(LAMBDA r : assign(r, "ou_confidence_pct", fillna_0(pct_clip(r.ou_confidence))),
    Apply(LAMBDA r : assign(r, "ou_grade", assign_ou_grade(r.ou_confidence)),
    Apply(LAMBDA r : assign(r, "ou_confidence", calculate_advanced_ou_confidence(r)),
          row)))

\* The columns calculate_ou_grades reads of a record: its goals g, its pick
\* o and its odds to.
OuInput(m, g, o, to) ==
    [match_id |-> m,
     predicted_home_goals |-> g[1],
     predicted_away_goals |-> g[2],
     predicted_outcome |-> o,
     over_2_5_odds |-> to[1],
     under_2_5_odds |-> to[2]]

\* calculate_ou_grades_row of every record that can be made of the goals,
\* picks and odds of the rows, each computed once.
OuKeys ==
    (GoalInputs \cup SecondGoals) \X OutcomeInputs
        \X (TotalsOdds \cup SecondTotalsOdds)
GradedOuRow(k) == calculate_ou_grades_row(OuInput(0, k[1], k[2], k[3]))
GradedOu == Table(GradedOuRow, OuKeys)

\* The graded record of given inputs.
OuGradeOf(m, g, o, to) ==
    [Lookup(GradedOu, GradedOuRow, <<g, o, to>>) EXCEPT !.match_id = m]

\* calculate_ou_grades: the row-wise calculation on every row of the frame.
calculate_ou_grades(frame) ==
    [m \in DOMAIN frame |->
        OuGradeOf(frame[m].match_id,
                  <<frame[m].predicted_home_goals, frame[m].predicted_away_goals>>,
                  frame[m].predicted_outcome,
                  <<frame[m].over_2_5_odds, frame[m].under_2_5_odds>>)]

\* fetch_null_ou_grade_records: WHERE ou_grade IS NULL
fetch_null_ou_grade_records(t) ==
    LET S == {m \in DOMAIN t : t[m].ou_grade = NULLS}
    IN  [m \in S |->
           [match_id |-> m,
            predicted_home_goals |-> t[m].predicted_home_goals,
            predicted_away_goals |-> t[m].predicted_away_goals,
            predicted_outcome |-> t[m].predicted_outcome,
            over_2_5_odds |-> t[m].over_2_5_odds,
            under_2_5_odds |-> t[m].under_2_5_odds]]

\* ---- the grader scripts ----

MlFetch ==
    /\ script = "new_ml_grade"
    /\ gpc \in {"idle", "done", "failed"}
    /\ df' = fetch_null_grade_records(gtbl)
    /\ gpc' = IF DOMAIN df' = {} THEN "done" ELSE "fetched"   \* len(df_records) == 0
    /\ UNCHANGED <<script, svars, dvars, gtbl>>

MlCalculate ==
    /\ script = "new_ml_grade"
    /\ gpc = "fetched"
    /\ df' = calculate_grades(df)
    /\ gpc' = "graded"
    /\ UNCHANGED <<script, svars, dvars, gtbl>>

\* (a variant in which a failing batch keeps the UPDATE of its first record)
update_database_partial(t, grades_df, db_ok) ==
    LET first == {m \in DOMAIN grades_df : \A n \in DOMAIN grades_df : m <= n}
        written == IF db_ok THEN DOMAIN grades_df ELSE first
    IN  [m \in DOMAIN t |->
           IF m \in written
           THEN [t[m] EXCEPT !.ml_grade = grades_df[m].ml_grade,
                             !.ml_confidence = grades_df[m].ml_confidence]
           ELSE t[m]]

\* update_database: the table after execute_batch and commit (db_ok), or
\* after the rollback that follows an error.
update_database(t, grades_df, db_ok) ==
    IF db_ok
    THEN [m \in DOMAIN t |->
            IF m \in DOMAIN grades_df
            THEN [t[m] EXCEPT !.ml_grade = grades_df[m].ml_grade,
                              !.ml_confidence = grades_df[m].ml_confidence]
            ELSE t[m]]
    ELSE t

\* update_database: execute_batch and commit, or rollback and re-raise.
MlUpdate(db_ok) ==
    /\ script = "new_ml_grade"
    /\ gpc = "graded"
    /\ gtbl' = update_database(gtbl, df, db_ok)
    /\ gpc' = IF db_ok THEN "done" ELSE "failed"
    /\ UNCHANGED <<script, svars, dvars, df>>

OuFetch ==
    /\ script = "ou_grade"
    /\ gpc \in {"idle", "done", "failed"}
    /\ df' = fetch_null_ou_grade_records(gtbl)
    /\ gpc' = IF DOMAIN df' = {} THEN "done" ELSE "fetched"   \* len(df_records) == 0
    /\ UNCHANGED <<script, svars, dvars, gtbl>>

OuCalculate ==
    /\ script = "ou_grade"
    /\ gpc = "fetched"
    /\ df' = calculate_ou_grades(df)
    /\ gpc' = "graded"
    /\ UNCHANGED <<script, svars, dvars, gtbl>>

OuUpdate(db_ok) ==
    /\ script = "ou_grade"
    /\ gpc = "graded"
    /\ IF db_ok
       THEN /\ gtbl' = [m \in DOMAIN gtbl |->
                          IF m \in DOMAIN df
                          THEN [gtbl[m] EXCEPT !.ou_grade = df[m].ou_grade,
                                               !.ou_confidence = df[m].ou_confidence_pct]
                          ELSE gtbl[m]]
            /\ gpc' = "done"
       ELSE /\ gtbl' = gtbl
            /\ gpc' = "failed"
    /\ UNCHANGED <<script, svars, dvars, df>>

GradeInit ==
    /\ script \in GraderScripts
    /\ \E r1 \in (IF script = "new_ml_grade" THEN MoneylineRows ELSE TotalsRows),
          r2 \in SecondRows :
           gtbl = [m \in Matches |-> IF m = 101 THEN r1 ELSE r2]
    /\ df = <<>>
    /\ gpc = "idle"
    /\ tbl = <<>>
    /\ pc = "idle"
    /\ pending_matches = <<>>
    /\ successful_updates = 0
    /\ failed_fetches = 0
    /\ api_status = ""
    /\ tx_aborted = FALSE
    /\ nan_cols = FALSE
    /\ working_api_config = 0
    /\ csv_df = <<>>
    /\ csv_order = <<>>
    /\ db_data = <<>>
    /\ dpc = "idle"
    /\ warnings = 0
    /\ stbl = <<>>
    /\ InsertIdle /\ ForceIdle /\ PredictIdle /\ AiiIdle

GradeNext ==
    \/ MlFetch
    \/ MlCalculate
    \/ \E db_ok \in BOOLEAN : MlUpdate(db_ok)
    \/ OuFetch
    \/ OuCalculate
    \/ \E db_ok \in BOOLEAN : OuUpdate(db_ok)

SpecGrade == GradeInit /\ [][GradeNext]_vars

(***************************************************************************)
(* Grading properties                                                      *)
(***************************************************************************)

\* The DataFrame holds the graded rows of the run.
MlGraded == script = "new_ml_grade" /\ gpc \in {"graded", "done", "failed"}
OuGraded == script = "ou_grade" /\ gpc \in {"graded", "done", "failed"}
Letters == {"A", "B", "C", "D"}

\* C6: the moneyline grade of every defined confidence c is A when
\* c < 0.1264, B when 0.1264 <= c < 0.3064, C when 0.3064 <= c < 0.6194 and
\* D when c >= 0.6194 (a confidence equal to a threshold takes the worse
\* grade), and that grade is the one the update stores.
C6_MoneylineGrading ==
    MlGraded =>
        \A m \in DOMAIN df :
            LET c == df[m].cal_confidence
                g == df[m].ml_grade
            IN  /\ ~isnaF(c) =>
                      /\ g = "A" <=> LessThan(c, 126400)
                      /\ g = "B" <=> AtLeast(c, 126400) /\ LessThan(c, 306400)
                      /\ g = "C" <=> AtLeast(c, 306400) /\ LessThan(c, 619400)
                      /\ g = "D" <=> AtLeast(c, 619400)
                /\ gpc = "done" => gtbl[m].ml_grade = g

\* A confidence equal to the threshold 0.1264 (goals 0.1 and 0.2, whose
\* difference is the float 0.1, Away at 1.896 against a favourite at 1.5)
\* was graded and stored as B.
C6_Witness ==
    /\ MlGraded
    /\ gpc = "done"
    /\ DOMAIN df = {101, 102}
    /\ df[101].predicted_home_goals = 1 /\ df[101].predicted_away_goals = 2
    /\ df[101].cal_confidence = Millionths(Q1_THRESHOLD)
    /\ gtbl[101].ml_grade = "B"
    /\ gtbl[102].ml_grade = "C"

\* C7 (as stated): the totals grade of every defined confidence c is A when
\* c >= 0.75, B when 0.70 <= c < 0.75, C when 0.2667 <= c < 0.70 and D
\* otherwise, so every c below 0.2667 is graded D.
C7_TotalsGradingAsStated ==
    OuGraded =>
        \A m \in DOMAIN df :
            LET c == df[m].ou_confidence
                g == df[m].ou_grade
            IN  ~isnaF(c) =>
                    /\ g = "A" <=> AtLeast(c, 750000)
                    /\ g = "B" <=> AtLeast(c, 700000) /\ LessThan(c, 750000)
                    /\ g = "C" <=> AtLeast(c, OU_C_THRESHOLD + 33) /\ LessThan(c, 700000)
                    /\ g = "D" <=> LessThan(c, OU_C_THRESHOLD + 33)

\* C7 (amended): the totals grade of every defined confidence c is A when
\* c >= 0.75, B when 0.70 <= c < 0.75, C when 0.266667 <= c < 0.70 and D
\* when c < 0.266667, and that grade is the one the update stores.
C7_TotalsGrading ==
    OuGraded =>
        \A m \in DOMAIN df :
            LET c == df[m].ou_confidence
                g == df[m].ou_grade
            IN  /\ ~isnaF(c) =>
                      /\ g = "A" <=> AtLeast(c, 750000)
                      /\ g = "B" <=> AtLeast(c, 700000) /\ LessThan(c, 750000)
                      /\ g = "C" <=> AtLeast(c, 266667) /\ LessThan(c, 700000)
                      /\ g = "D" <=> LessThan(c, 266667)
                /\ gpc = "done" => gtbl[m].ou_grade = g

\* A confidence of 0.2666875 (total 2.6, Over at 4.267 against Under at 1.6),
\* between 0.266667 and 0.2667, was graded and stored as C.
C7_Witness ==
    /\ OuGraded
    /\ gpc = "done"
    /\ DOMAIN df = {101, 102}
    /\ df[101].predicted_home_goals = 16 /\ df[101].predicted_away_goals = 10
    /\ df[101].over_2_5_odds = 4267 /\ df[101].under_2_5_odds = 1600
    /\ AtLeast(df[101].ou_confidence, OU_C_THRESHOLD)
    /\ LessThan(df[101].ou_confidence, OU_C_THRESHOLD + 33)
    /\ gtbl[101].ou_grade = "C"

\* The odds o of one side are a number that is zero or negative.
NotPositive(o) == ~isna(o) /\ o <= 0

\* C8: in both graders a record whose confidence is undefined gets grade D,
\* and so does every record with a zero or negative odds, with no odds on
\* its predicted side (any missing odds, in the totals grader), with missing
\* predicted goals or with a label that names no side; every fetched record
\* of the batch gets a letter grade, which is the grade stored.
C8_FailSafeD ==
    /\ MlGraded =>
          \A m \in DOMAIN df :
              LET r == df[m]
              IN  /\ r.ml_grade \in Letters
                  /\ isnaF(r.cal_confidence) => r.ml_grade = "D"
                  /\ (\/ NotPositive(r.home_odds) \/ NotPositive(r.away_odds)
                      \/ NotPositive(r.draw_odds)
                      \/ r.predicted_winner \notin {"Home Win", "Away Win", "Draw"}
                      \/ isna(get_pred_side_odds(r))
                      \/ isna(r.predicted_home_goals) \/ isna(r.predicted_away_goals))
                     => isnaF(r.cal_confidence) /\ r.ml_grade = "D"
                  /\ gpc = "done" => gtbl[m].ml_grade = r.ml_grade
    /\ MlGraded => DOMAIN df = DOMAIN fetch_null_grade_records(
                                   [m \in Matches |-> [gtbl[m] EXCEPT !.ml_grade =
                                       IF m \in DOMAIN df /\ gpc = "done" THEN NULLS ELSE @]])
    /\ OuGraded =>
          \A m \in DOMAIN df :
              LET r == df[m]
              IN  /\ r.ou_grade \in Letters
                  /\ isnaF(r.ou_confidence) => r.ou_grade = "D" /\ r.ou_confidence_pct = ZeroF
                  /\ (\/ isna(r.over_2_5_odds) \/ isna(r.under_2_5_odds)
                      \/ NotPositive(r.over_2_5_odds) \/ NotPositive(r.under_2_5_odds)
                      \/ (~ContainsOver(r.predicted_outcome) /\ ~ContainsUnder(r.predicted_outcome))
                      \/ isna(r.predicted_home_goals) \/ isna(r.predicted_away_goals))
                     => isnaF(r.ou_confidence) /\ r.ou_grade = "D"
                  /\ gpc = "done" => gtbl[m].ou_grade = r.ou_grade

\* The record with odds {Home 0, Away 1.8, Draw 3.1} predicting Home got an
\* undefined confidence and grade D, and the other record of the batch was
\* graded C in the same run.
C8_Witness ==
    /\ MlGraded
    /\ gpc = "done"
    /\ DOMAIN df = {101, 102}
    /\ df[101].home_odds = 0 /\ df[101].away_odds = 1800 /\ df[101].draw_odds = 3100
    /\ df[101].predicted_winner = "Home Win"
    /\ isnaF(df[101].cal_confidence)
    /\ gtbl[101].ml_grade = "D"
    /\ gtbl[102].ml_grade = "C"

\* C9: a record with any odds of its market missing or <= 0, the odds of a
\* side that was not predicted included, has an undefined market factor and
\* an undefined confidence.
C9_AnyBadOddsUndefined ==
    /\ MlGraded =>
          \A m \in DOMAIN df :
              LET r == df[m]
              IN  (\E o \in {r.home_odds, r.away_odds, r.draw_odds} : isna(o) \/ o <= 0)
                  => isnaF(r.market_factor) /\ isnaF(r.cal_confidence)
    /\ OuGraded =>
          \A m \in DOMAIN df :
              LET r == df[m]
              IN  (\E o \in {r.over_2_5_odds, r.under_2_5_odds} : isna(o) \/ o <= 0)
                  => isnaF(r.ou_confidence)

\* What the graders do leave unscored: the totals grader every record with
\* an odds missing or <= 0, the moneyline grader every record with an odds
\* <= 0 or with the odds of the predicted side missing.  A moneyline record
\* whose only missing odds are those of a side it did not predict is scored
\* against the minimum of the odds that are present.
UnscoredAsCoded ==
    /\ MlGraded =>
          \A m \in DOMAIN df :
              LET r == df[m]
                  present == {o \in {r.home_odds, r.away_odds, r.draw_odds} : ~isna(o)}
              IN  isnaF(r.market_factor) <=>
                      \/ \E o \in present : o <= 0
                      \/ isna(get_pred_side_odds(r))
    /\ OuGraded =>
          \A m \in DOMAIN df :
              LET r == df[m]
              IN  (\E o \in {r.over_2_5_odds, r.under_2_5_odds} : isna(o) \/ o <= 0)
                  => isnaF(r.ou_confidence)

\* C10: with the three odds present and positive, the market factor is
\* 1 / predicted-side odds when those odds are the minimum of the three (or
\* within the relative tolerance 1e-5 of it) and predicted-side odds /
\* minimum otherwise, and the confidence is |home goals - away goals| *
\* market factor, not normalised; differential 1.2 with odds {Home 1.5,
\* Away 6.0, Draw 4.0} predicting Home gives confidence 0.8 (to two
\* decimals) and grade D.
C10_MoneylineConfidence ==
    MlGraded =>
        \A m \in DOMAIN df :
            LET r == df[m]
                odds == {r.home_odds, r.away_odds, r.draw_odds}
                po == IF r.predicted_winner = "Home Win" THEN r.home_odds
                      ELSE IF r.predicted_winner = "Away Win" THEN r.away_odds
                      ELSE r.draw_odds
                mf == r.market_factor
                c == r.cal_confidence
            IN  (/\ \A o \in odds : ~isna(o) /\ o > 0
                 /\ r.predicted_winner \in {"Home Win", "Away Win", "Draw"}
                 /\ ~isna(r.predicted_home_goals) /\ ~isna(r.predicted_away_goals))
                =>
                LET mn == CHOOSE x \in odds : \A y \in odds : x <= y
                    diff == AbsF(SubF(goals_float(r.predicted_home_goals),
                                      goals_float(r.predicted_away_goals)))
                    equal == po = mn \/ isclose(odds_float(po), odds_float(mn))
                IN  /\ ~isnaF(mf) /\ ~isnaF(c)
                    /\ equal => mf = DivF(IntF(1), odds_float(po))
                    /\ ~equal => mf = DivF(odds_float(po), odds_float(mn))
                    /\ c = MulF(diff, mf)
                    /\ (r.predicted_home_goals = 17 /\ r.predicted_away_goals = 5
                        /\ r.predicted_winner = "Home Win"
                        /\ r.home_odds = 1500 /\ r.away_odds = 6000 /\ r.draw_odds = 4000)
                       => round2F(c) = 80 /\ r.ml_grade = "D"

\* The example record (goals 1.7 - 0.5, odds {1.5, 6.0, 4.0}, Home) was
\* stored with grade D and 80.00 % (its confidence is the float just below
\* 0.8), next to an underdog pick (Away at 2.876 against a favourite at
\* 2.5) scored 0.3 * 2.876 / 2.5 = 0.35.
C10_Witness ==
    /\ MlGraded
    /\ gpc = "done"
    /\ DOMAIN df = {101, 102}
    /\ df[101].predicted_home_goals = 17 /\ df[101].predicted_away_goals = 5
    /\ df[101].pred_side_odds = 1500
    /\ df[101].min_all_odds = 1500 /\ df[101].away_odds = 6000 /\ df[101].draw_odds = 4000
    /\ df[101].market_factor = DivF(IntF(2), IntF(3))
    /\ round2F(df[101].cal_confidence) = 80
    /\ LessThan(df[101].cal_confidence, 800000)
    /\ gtbl[101].ml_grade = "D" /\ round2F(gtbl[101].ml_confidence) = 8000
    /\ df[102].market_factor = DivF(odds_float(2876), odds_float(2500))
    /\ round2F(df[102].cal_confidence) = 35

\* The totals record r can be scored: both odds are positive numbers, the
\* label names a side and the predicted goals are numbers.
OuScorable(r) ==
    /\ ~isna(r.over_2_5_odds) /\ r.over_2_5_odds > 0
    /\ ~isna(r.under_2_5_odds) /\ r.under_2_5_odds > 0
    /\ ContainsOver(r.predicted_outcome) \/ ContainsUnder(r.predicted_outcome)
    /\ ~isna(r.predicted_home_goals) /\ ~isna(r.predicted_away_goals)

\* Odds of the side the totals record predicts, and the lower of its two odds.
OuPickOdds(r) == IF ContainsOver(r.predicted_outcome) THEN r.over_2_5_odds ELSE r.under_2_5_odds
OuMinOdds(r) == IF r.over_2_5_odds <= r.under_2_5_odds THEN r.over_2_5_odds ELSE r.under_2_5_odds

\* C11: the totals market factor is 1 / predicted-side odds whenever the
\* predicted side's odds equal the minimum of the two odds (equal Over and
\* Under odds included, whichever side is predicted) and predicted-side odds
\* / minimum odds otherwise.
C11_TotalsMarketFactor ==
    OuGraded =>
        \A m \in DOMAIN df :
            LET r == df[m]
                mf == market_factor_ou(r)
            IN  OuScorable(r) =>
                    /\ OuPickOdds(r) = OuMinOdds(r)
                           => mf = DivF(IntF(1), odds_float(OuPickOdds(r)))
                    /\ OuPickOdds(r) # OuMinOdds(r)
                           => mf = DivF(odds_float(OuPickOdds(r)), odds_float(OuMinOdds(r)))

\* What the totals grader does: the rule of C11 whenever the two odds
\* differ and for an Under prediction at equal odds; an Over prediction at
\* equal odds is not taken for the favourite and gets market factor
\* over / under = 1.
TotalsMarketFactorAsCoded ==
    OuGraded =>
        \A m \in DOMAIN df :
            LET r == df[m]
                mf == market_factor_ou(r)
                tie_over == r.over_2_5_odds = r.under_2_5_odds /\ ContainsOver(r.predicted_outcome)
            IN  OuScorable(r) =>
                    /\ tie_over => mf = IntF(1)
                    /\ (~tie_over /\ OuPickOdds(r) = OuMinOdds(r))
                           => mf = DivF(IntF(1), odds_float(OuPickOdds(r)))
                    /\ OuPickOdds(r) # OuMinOdds(r)
                           => mf = DivF(odds_float(OuPickOdds(r)), odds_float(OuMinOdds(r)))
                    /\ r.ou_confidence = MulF(distance_factor_ou(r), mf)

\* C12: predicting Over, the distance factor is the distance of the
\* predicted total from the 2.5 line when the total is >= the line and
\* distance * (min odds / max odds) when it is below; predicting Under it is
\* the distance when the total is <= the line and the dampened distance
\* when it is above; confidence = distance factor * market factor, and a
\* confidence is never negative.  Total 3.1 with Over at 1.8 against Under
\* at 2.0 predicting Over gives confidence 0.333 and grade C.
C12_AsymmetricDistance ==
    OuGraded =>
        \A m \in DOMAIN df :
            LET r == df[m]
                c == r.ou_confidence
            IN  /\ isnaF(c) \/ LeqF(ZeroF, c)
                /\ OuScorable(r) =>
                      LET total == r.predicted_home_goals + r.predicted_away_goals
                          dist == AbsF(SubF(AddF(goals_float(r.predicted_home_goals),
                                                 goals_float(r.predicted_away_goals)),
                                            goals_float(25)))
                          lo == OuMinOdds(r)
                          hi == IF lo = r.over_2_5_odds THEN r.under_2_5_odds ELSE r.over_2_5_odds
                          damped == MulF(dist, DivF(odds_float(lo), odds_float(hi)))
                          dfac == distance_factor_ou(r)
                      IN  /\ (ContainsOver(r.predicted_outcome) /\ total >= 25) => dfac = dist
                          /\ (ContainsOver(r.predicted_outcome) /\ total < 25) => dfac = damped
                          /\ (~ContainsOver(r.predicted_outcome) /\ total <= 25) => dfac = dist
                          /\ (~ContainsOver(r.predicted_outcome) /\ total > 25) => dfac = damped
                          /\ c = MulF(dfac, market_factor_ou(r))
                          /\ (total = 31 /\ ContainsOver(r.predicted_outcome)
                              /\ r.over_2_5_odds = 1800 /\ r.under_2_5_odds = 2000)
                             => /\ AtLeast(c, 333000) /\ LessThan(c, 334000)
                                /\ r.ou_grade = "C"

\* The example record (goals 1.6 + 1.5, Over at 1.8 against Under at 2.0)
\* was stored with grade C and 33.3 %, its distance 0.6 taken undamped.
C12_Witness ==
    /\ OuGraded
    /\ gpc = "done"
    /\ DOMAIN df = {101, 102}
    /\ df[101].predicted_home_goals + df[101].predicted_away_goals = 31
    /\ df[101].predicted_outcome = "Over 2.50"
    /\ df[101].over_2_5_odds = 1800 /\ df[101].under_2_5_odds = 2000
    /\ distance_factor_ou(df[101]) = AbsF(SubF(add_goals(16, 15), goals_float(25)))
    /\ round2F(distance_factor_ou(df[101])) = 60
    /\ round2F(df[101].ou_confidence) = 33
    /\ gtbl[101].ou_grade = "C" /\ round2F(gtbl[101].ou_confidence) = 3333

\* An Under pick with the predicted total above the line (goals 2.5 + 1.5,
\* Under at 2.0 against Over at 1.8) was scored with the dampened distance
\* 1.5 * 1.8 / 2.0.
DampedDistanceReached ==
    /\ OuGraded
    /\ \E m \in DOMAIN df :
          /\ df[m].predicted_home_goals = 25 /\ df[m].predicted_away_goals = 15
          /\ df[m].predicted_outcome = "Under 2.50"
          /\ df[m].over_2_5_odds = 1800 /\ df[m].under_2_5_odds = 2000
          /\ round2F(distance_factor_ou(df[m])) = 135
          /\ round2F(df[m].ou_confidence) = 150

\* The line a prediction label was made against, in tenths: predict.py
\* writes the label as "Over <line>" / "Under <line>" with two decimals.
LabelLine(label) ==
    IF label \in {"Over 3.50"} THEN 35
    ELSE IF label \in {"Under 1.50"} THEN 15
    ELSE 25

\* The confidence of C13 for the record r: the distance and the >= / <=
\* comparisons taken against the record's own line.
PerMatchLineConfidence(r) ==
    LET line == goals_float(LabelLine(r.predicted_outcome))
        total == add_goals(r.predicted_home_goals, r.predicted_away_goals)
        dist == AbsF(SubF(total, line))
        lo == OuMinOdds(r)
        hi == IF lo = r.over_2_5_odds THEN r.under_2_5_odds ELSE r.over_2_5_odds
        straight == IF ContainsOver(r.predicted_outcome) THEN LeqF(line, total)
                    ELSE LeqF(total, line)
    IN  MulF(IF straight THEN dist ELSE MulF(dist, DivF(odds_float(lo), odds_float(hi))),
             market_factor_ou(r))

\* C13: the totals confidence measures the distance of the predicted total
\* from the record's own line and compares the total with that same line
\* in the asymmetric adjustment.
C13_PerMatchLine ==
    OuGraded =>
        \A m \in DOMAIN df :
            OuScorable(df[m]) => df[m].ou_confidence = PerMatchLineConfidence(df[m])

\* What the totals grader does: the line is 2.5 for every record, so the
\* confidence and the grade of a record do not change when its label is
\* replaced by a label of the same side with another line.
FixedLineAsCoded ==
    OuGraded =>
        \A m \in DOMAIN df :
            \A label \in OverLabels \cup UnderLabels :
                (ContainsOver(label) <=> ContainsOver(df[m].predicted_outcome))
                => LET other == OuGradeOf(m, <<df[m].predicted_home_goals,
                                                  df[m].predicted_away_goals>>,
                                             label,
                                             <<df[m].over_2_5_odds, df[m].under_2_5_odds>>)
                   IN  \/ ~(ContainsOver(df[m].predicted_outcome) \/ ContainsUnder(df[m].predicted_outcome))
                       \/ /\ other.ou_confidence = df[m].ou_confidence
                          /\ other.ou_grade = df[m].ou_grade

\* Position of a letter grade: 1 for A (best) to 4 for D (worst).
Rank(g) == IF g = "A" THEN 1 ELSE IF g = "B" THEN 2 ELSE IF g = "C" THEN 3 ELSE 4

\* Predicted goals that are numbers.
KnownGoals == {g \in GoalInputs : ~isna(g[1]) /\ ~isna(g[2])}

\* The graded totals record with the odds and label of r and the goals g.
OuWithGoals(r, g) ==
    OuGradeOf(r.match_id, g, r.predicted_outcome, <<r.over_2_5_odds, r.under_2_5_odds>>)

\* Distance of the predicted total of r from the 2.5 line.
OuDistance(r) ==
    distance_from_2_5(add_goals(r.predicted_home_goals, r.predicted_away_goals))

\* The distance of r is taken undamped: the predicted total is on the
\* predicted side of the 2.5 line, or on the line.
OuUndamped(r) ==
    IF ContainsOver(r.predicted_outcome)
    THEN LeqF(goals_float(25), add_goals(r.predicted_home_goals, r.predicted_away_goals))
    ELSE LeqF(add_goals(r.predicted_home_goals, r.predicted_away_goals), goals_float(25))

\* C14 (as stated): of two totals records with the same odds and the same
\* predicted side, the one with the larger distance from the line never
\* gets a worse grade.
C14_TotalsMonotoneAsStated ==
    OuGraded =>
        \A m \in DOMAIN df : \A g \in KnownGoals :
            LET r == df[m]
                r2 == OuWithGoals(r, g)
            IN  (OuScorable(r) /\ LessF(OuDistance(r), OuDistance(r2)))
                => Rank(r2.ou_grade) <= Rank(r.ou_grade)

\* C14 (amended): of two totals records with the same odds and the same
\* predicted side whose distances are both undamped or both dampened, the
\* one with the larger distance has the larger or equal confidence and never
\* gets a worse grade.
C14_TotalsMonotone ==
    OuGraded =>
        \A m \in DOMAIN df : \A g \in KnownGoals :
            LET r == df[m]
                r2 == OuWithGoals(r, g)
            IN  (/\ OuScorable(r)
                 /\ OuUndamped(r2) <=> OuUndamped(r)
                 /\ LeqF(OuDistance(r), OuDistance(r2)))
                => /\ LeqF(r.ou_confidence, r2.ou_confidence)
                   /\ Rank(r2.ou_grade) <= Rank(r.ou_grade)

\* A record at distance 1.4 (goals 2.4 + 1.5, Over at 2.0 against Under at
\* 2.1) was stored with grade B while the same pick at distance 1.5 grades
\* A; and the same pick below the line at distance 0.4 grades D.
C14_Witness ==
    /\ OuGraded
    /\ gpc = "done"
    /\ DOMAIN df = {101, 102}
    /\ df[101].predicted_home_goals = 24 /\ df[101].predicted_away_goals = 15
    /\ df[101].predicted_outcome = "Over 2.50"
    /\ df[101].over_2_5_odds = 2000 /\ df[101].under_2_5_odds = 2100
    /\ gtbl[101].ou_grade = "B"
    /\ OuWithGoals(df[101], <<25, 15>>).ou_grade = "A"
    /\ OuWithGoals(df[101], <<10, 11>>).ou_grade = "D"

\* The graded moneyline record with the odds and pick of r and the goals g.
MlWithGoals(r, g) ==
    MlGradeOf(r.match_id, g, r.predicted_winner, <<r.home_odds, r.away_odds, r.draw_odds>>)

\* C15: of two moneyline records with the same market factor (same odds
\* and same pick), the one with the larger |predicted goal differential|
\* has the larger or equal confidence and a grade that is no nearer to A.
C15_MoneylineMonotone ==
    MlGraded =>
        \A m \in DOMAIN df : \A g \in KnownGoals :
            LET r == df[m]
                r2 == MlWithGoals(r, g)
            IN  LeqF(r.abs_pred_goal_diff, r2.abs_pred_goal_diff)
                => /\ r2.market_factor = r.market_factor
                   /\ isnaF(r2.cal_confidence) <=> isnaF(r.cal_confidence)
                   /\ ~isnaF(r.cal_confidence) =>
                          LeqF(r.cal_confidence, r2.cal_confidence)
                   /\ Rank(r2.ml_grade) >= Rank(r.ml_grade)

\* A record with differential 0.1 (Away at 1.896 against a favourite at
\* 1.5) was stored with grade B, while the same pick grades A at
\* differential 0 and D at differential 1.2.
C15_Witness ==
    /\ MlGraded
    /\ gpc = "done"
    /\ DOMAIN df = {101, 102}
    /\ df[101].predicted_home_goals = 10 /\ df[101].predicted_away_goals = 11
    /\ df[101].market_factor = DivF(odds_float(1896), odds_float(1500))
    /\ gtbl[101].ml_grade = "B"
    /\ MlWithGoals(df[101], <<12, 12>>).ml_grade = "A"
    /\ MlWithGoals(df[101], <<17, 5>>).ml_grade = "D"

\* The columns of the graded moneyline / totals record r that were fetched.
MlInputs(r) ==
    [match_id |-> r.match_id,
     predicted_home_goals |-> r.predicted_home_goals,
     predicted_away_goals |-> r.predicted_away_goals,
     predicted_winner |-> r.predicted_winner,
     home_odds |-> r.home_odds,
     away_odds |-> r.away_odds,
     draw_odds |-> r.draw_odds]
OuInputs(r) ==
    [match_id |-> r.match_id,
     predicted_home_goals |-> r.predicted_home_goals,
     predicted_away_goals |-> r.predicted_away_goals,
     predicted_outcome |-> r.predicted_outcome,
     over_2_5_odds |-> r.over_2_5_odds,
     under_2_5_odds |-> r.under_2_5_odds]

\* Grading the inputs of a graded record again, on their own, gives the
\* confidence and grade the record has.
Regraded ==
    /\ MlGraded => \A m \in DOMAIN df : calculate_grades_row(MlInputs(df[m])) = df[m]
    /\ OuGraded => \A m \in DOMAIN df : calculate_ou_grades_row(OuInputs(df[m])) = df[m]

\* A step of a grade updater leaves the stored grade and confidence of every
\* record that has a grade as they are, and a fetch does not return it.
GradedIsKept ==
    \A m \in DOMAIN gtbl :
        /\ (script = "new_ml_grade" /\ gtbl[m].ml_grade # NULLS) =>
              /\ gtbl'[m].ml_grade = gtbl[m].ml_grade
              /\ gtbl'[m].ml_confidence = gtbl[m].ml_confidence
              /\ gpc \in {"idle", "done", "failed"} => m \notin DOMAIN df'
        /\ (script = "ou_grade" /\ gtbl[m].ou_grade # NULLS) =>
              /\ gtbl'[m].ou_grade = gtbl[m].ou_grade
              /\ gtbl'[m].ou_confidence = gtbl[m].ou_confidence
              /\ gpc \in {"idle", "done", "failed"} => m \notin DOMAIN df'

\* C16: grading the same inputs twice gives the same confidence and grade,
\* and once a record has a grade no later run of the grade updater fetches
\* it again or changes its stored grade or confidence.
C16_GradeOnce == [](Regraded) /\ [][GradedIsKept]_vars

\* A second run of the moneyline updater found nothing to fetch: both
\* records keep the grades of the first run.
C16_Witness ==
    /\ script = "new_ml_grade"
    /\ gpc = "done"
    /\ DOMAIN df = {}
    /\ gtbl[101].ml_grade = "A"
    /\ gtbl[102].ml_grade = "C"

\* min(c * 100, 100) for a confidence c that is a number.
MinPct(c) ==
    LET pct == MulF(c, IntF(100))
    IN  IF LeqF(IntF(100), pct) THEN IntF(100) ELSE pct

\* The percentage p lies in [0, 100].
InPctRange(p) == LeqF(ZeroF, p) /\ LeqF(p, IntF(100))

\* C17: for every record with a defined confidence the percentage handed
\* to the update is min(confidence * 100, 100), it lies in [0, 100], and it
\* is the value stored in ml_confidence / ou_confidence.
C17_PercentClipped ==
    /\ MlGraded =>
          \A m \in DOMAIN df :
              LET c == df[m].cal_confidence
                  p == df[m].ml_confidence
              IN  ~isnaF(c) => /\ p = MinPct(c)
                               /\ InPctRange(p)
                               /\ gpc = "done" => gtbl[m].ml_confidence = p
    /\ OuGraded =>
          \A m \in DOMAIN df :
              LET c == df[m].ou_confidence
                  p == df[m].ou_confidence_pct
              IN  ~isnaF(c) => /\ p = MinPct(c)
                               /\ InPctRange(p)
                               /\ gpc = "done" => gtbl[m].ou_confidence = p

\* A confidence of 1.2 * 6.0 / 1.5 = 4.8 was stored as 100 %, next to a
\* confidence of 0.34512 stored as 34.51 %.
C17_Witness ==
    /\ MlGraded
    /\ gpc = "done"
    /\ DOMAIN df = {101, 102}
    /\ round2F(df[101].cal_confidence) = 480
    /\ gtbl[101].ml_confidence = IntF(100)
    /\ round2F(df[102].cal_confidence) = 35
    /\ round2F(gtbl[102].ml_confidence) = 3451

(***************************************************************************)
(* Saving predictions: save_main.py (the display grade of a confidence     *)
(* score and the INSERT of the new records)                                *)
(***************************************************************************)

\* confidence scores of the CSV file, in thousandths
ConfidenceValues ==
    {0 - 50, 0, 250, 499, 500, 549, 550, 599, 600, 649, 650, 699,
     700, 749, 750, 799, 800, 849, 850, 899, 900, 1000, 1200}
SecondConfidenceValues == {725, 1200}

\* The float pd.read_csv gives for a confidence written in thousandths
ConfidenceFloats ==
    Table(ThousandthsF, ConfidenceValues \cup SecondConfidenceValues \cup {200})
confidence_float(k) == Lookup(ConfidenceFloats, ThousandthsF, k)

ConfidenceInputs == {confidence_float(k) : k \in ConfidenceValues} \cup {NANF}
SecondConfidenceInputs == {confidence_float(k) : k \in SecondConfidenceValues} \cup {NANF}

\* max(0, min(1, confidence))
clip_0_1(confidence) ==
    IF LessF(confidence, ZeroF) THEN ZeroF
    ELSE IF LessF(IntF(1), confidence) THEN IntF(1)
    ELSE confidence

\* (a variant whose steps start above each bound)
calculate_grade_strict(confidence) ==
    IF isnaF(confidence) THEN NULLS
    ELSE LET score == MulF(clip_0_1(confidence), IntF(100))
         IN  IF LessF(IntF(90), score) THEN "A+"
             ELSE IF LessF(IntF(85), score) THEN "A"
             ELSE IF LessF(IntF(80), score) THEN "A-"
             ELSE IF LessF(IntF(75), score) THEN "B+"
             ELSE IF LessF(IntF(70), score) THEN "B"
             ELSE IF LessF(IntF(65), score) THEN "B-"
             ELSE IF LessF(IntF(60), score) THEN "C+"
             ELSE IF LessF(IntF(55), score) THEN "C"
             ELSE IF LessF(IntF(50), score) THEN "C-"
             ELSE "D"

calculate_grade(confidence) ==
    IF isnaF(confidence) THEN NULLS
    ELSE LET score == MulF(clip_0_1(confidence), IntF(100))
         IN  IF LeqF(IntF(90), score) THEN "A+"
             ELSE IF LeqF(IntF(85), score) THEN "A"
             ELSE IF LeqF(IntF(80), score) THEN "A-"
             ELSE IF LeqF(IntF(75), score) THEN "B+"
             ELSE IF LeqF(IntF(70), score) THEN "B"
             ELSE IF LeqF(IntF(65), score) THEN "B-"
             ELSE IF LeqF(IntF(60), score) THEN "C+"
             ELSE IF LeqF(IntF(55), score) THEN "C"
             ELSE IF LeqF(IntF(50), score) THEN "C-"
             ELSE "D"

\* calculate_grade prints its warning for a confidence outside [0, 1].
warns(confidence) ==
    ~isnaF(confidence) /\ (LessF(confidence, ZeroF) \/ LessF(IntF(1), confidence))

\* None if pd.isna(v) else v, on a float and on a grade
none_if_na(c) == IF isnaF(c) THEN NULLF ELSE c
none_if_na_text(g) == g

SaveScripts == {"save_main"}

\* [3/5] the transformation of the CSV rows into db_data
SaveTransform ==
    /\ script = "save_main"
    /\ dpc = "loaded"
    /\ db_data' = [m \in DOMAIN csv_df |->
                     [match_id |-> m,
                      confidence |-> csv_df[m].confidence,
                      grade |-> calculate_grade(csv_df[m].confidence)]]
    /\ warnings' = warnings + Cardinality({m \in DOMAIN csv_df : warns(csv_df[m].confidence)})
    /\ dpc' = "transformed"
    /\ UNCHANGED <<script, svars, gvars, csv_df, csv_order, stbl, xvars>>

\* The columns of db_data, in the order of the INSERT statement.
db_columns ==
    <<"match_id", "date", "league", "league_name", "home_id", "away_id", "home_team",
      "away_team", "home_odds", "away_odds", "draw_odds", "over_2_5_odds", "under_2_5_odds",
      "ctmcl", "predicted_home_goals", "predicted_away_goals", "confidence", "grade",
      "delta", "predicted_outcome", "predicted_winner", "status", "data_source",
      "confidence_category", "actual_over_under", "actual_winner", "profit_loss_outcome",
      "profit_loss_winner", "actual_home_team_goals", "actual_away_team_goals",
      "actual_total_goals">>

\* if len(values) != 31: raise ValueError
EXPECTED_COLUMNS == 31

\* The records of S in the order of their rows in the CSV file
\* (DataFrame.iterrows() of a selection of the rows).
iterrows(S) == SelectSeq(csv_order, LAMBDA m : m \in S)

\* What the database does to a call of insert_to_table: "connect" makes
\* psycopg2.connect raise, "select" the SELECT of the existing match_ids,
\* "commit" the commit after the loop.
DbOutcomes == {"ok", "connect", "select", "commit"}

\* return {'success': False, ..., 'inserted': 0, 'errors': 0}
early_return(t) == [tbl |-> t, inserted |-> 0, errors |-> 0]

\* The loop of insert_to_table over new_data.iterrows() and its commit.
\* bad is the set of records whose INSERT the database rejects.  A record
\* is counted in `inserted` when its execute returns; after a rejected
\* INSERT the transaction is aborted, every later execute of the loop
\* raises too and the commit ends the transaction without storing
\* anything.  A row with the wrong number of values raises before its
\* execute.  With no new record the function returns before the loop; a
\* commit that raises is answered by a rollback and
\* {'inserted': 0, 'errors': len(new_data)}.
insert_loop(t, data, new_data, ncols, expected, bad, db) ==
    LET rows == iterrows(new_data)
        raises == IF ncols # expected THEN new_data
                  ELSE {rows[i] : i \in {k \in DOMAIN rows : \E j \in 1..k : rows[j] \in bad}}
        stored == IF ncols # expected \/ raises # {} THEN {} ELSE new_data
    IN  IF new_data = {} THEN early_return(t)
        ELSE IF db = "commit"
        THEN [tbl |-> t, inserted |-> 0, errors |-> Cardinality(new_data)]
        ELSE [tbl |-> [m \in DOMAIN t \cup stored |-> IF m \in stored THEN data[m] ELSE t[m]],
              inserted |-> Cardinality(new_data \ raises),
              errors |-> Cardinality(raises)]

\* The values of the record of match m: None if pd.isna(v) else v.
insert_values(m) ==
    [confidence |-> none_if_na(db_data[m].confidence),
     grade |-> none_if_na_text(db_data[m].grade)]

\* (a variant that does not filter out the records the table has)
insert_to_table_all(t, bad, db) ==
    IF db \in {"connect", "select"} THEN early_return(t)
    ELSE insert_loop(t, [m \in DOMAIN db_data |-> insert_values(m)], DOMAIN db_data,
                     Len(db_columns), EXPECTED_COLUMNS, bad, db)

\* insert_to_table: the records whose match_id is not in the table yet are
\* inserted in one transaction; when the connection or the SELECT of the
\* existing match_ids fails the function returns at once.
insert_to_table(t, bad, db) ==
    LET existing_ids == DOMAIN t
        new_data == {m \in DOMAIN db_data : m \notin existing_ids}
    IN  IF db \in {"connect", "select"} THEN early_return(t)
        ELSE insert_loop(t, [m \in DOMAIN db_data |-> insert_values(m)], new_data,
                         Len(db_columns), EXPECTED_COLUMNS, bad, db)

\* insert_to_table(TABLE_NAMES[0], db_data)
SaveInsert(bad, db) ==
    /\ script = "save_main"
    /\ dpc = "transformed"
    /\ LET result == insert_to_table(stbl, bad, db)
       IN  /\ stbl' = result.tbl
           /\ inserted' = result.inserted
           /\ errors' = result.errors
    /\ dpc' = "inserted"
    /\ UNCHANGED <<script, svars, gvars, csv_df, csv_order, db_data, warnings>>
    /\ UNCHANGED <<stbl2, fvars, pvars, avars>>

\* insert_to_table(TABLE_NAMES[1], db_data), in a transaction of its own,
\* whatever the first call returned
SaveInsertSecond(bad, db) ==
    /\ script = "save_main"
    /\ dpc = "inserted"
    /\ LET result == insert_to_table(stbl2, bad, db)
       IN  /\ stbl2' = result.tbl
           /\ inserted' = result.inserted
           /\ errors' = result.errors
    /\ dpc' = "done"
    /\ UNCHANGED <<script, svars, gvars, csv_df, csv_order, db_data, warnings>>
    /\ UNCHANGED <<stbl, fvars, pvars, avars>>

\* The script is run again over the same CSV file.
SaveRunAgain ==
    /\ script = "save_main"
    /\ dpc = "done"
    /\ dpc' = "loaded"
    /\ db_data' = <<>>
    /\ warnings' = 0
    /\ inserted' = 0
    /\ errors' = 0
    /\ UNCHANGED <<script, svars, gvars, csv_df, csv_order, stbl>>
    /\ UNCHANGED <<stbl2, fvars, pvars, avars>>

\* Rows the tables hold before the first run.
OldRow == [confidence |-> confidence_float(600), grade |-> "C+"]
OldRowSecond == [confidence |-> confidence_float(200), grade |-> "D"]

SaveInit ==
    /\ script \in SaveScripts
    /\ \E c1 \in ConfidenceInputs, c2 \in SecondConfidenceInputs :
           csv_df = [m \in Matches |-> [match_id |-> m,
                                        confidence |-> IF m = 101 THEN c1 ELSE c2]]
    /\ csv_order \in Orders(Matches)
    /\ stbl \in {<<>>, [m \in {102} |-> OldRow]}
    /\ stbl2 \in {<<>>, [m \in {101} |-> OldRowSecond]}
    /\ db_data = <<>>
    /\ dpc = "loaded"
    /\ warnings = 0
    /\ inserted = 0
    /\ errors = 0
    /\ ForceIdle /\ PredictIdle /\ AiiIdle
    /\ gtbl = <<>>
    /\ df = <<>>
    /\ gpc = "idle"
    /\ tbl = <<>>
    /\ pc = "idle"
    /\ pending_matches = <<>>
    /\ successful_updates = 0
    /\ failed_fetches = 0
    /\ api_status = ""
    /\ tx_aborted = FALSE
    /\ nan_cols = FALSE
    /\ working_api_config = 0

SaveNext ==
    \/ SaveTransform
    \/ \E bad \in SUBSET Matches, db \in DbOutcomes : SaveInsert(bad, db)
    \/ \E bad \in SUBSET Matches, db \in DbOutcomes : SaveInsertSecond(bad, db)
    \/ SaveRunAgain

SpecSave == SaveInit /\ [][SaveNext]_vars

(***************************************************************************)
(* Display grade properties                                                *)
(***************************************************************************)

Transformed == script = "save_main" /\ dpc \in {"transformed", "inserted", "done"}

\* The confidence score c, a number, is at least the score written k
\* thousandths.
AtLeastThousandths(c, k) == LeqF(confidence_float(k), c)

\* The grade of the table of C18 for a confidence score c in [0, 1].
DisplayLookup(c) ==
    IF AtLeastThousandths(c, 900) THEN "A+"
    ELSE IF AtLeastThousandths(c, 850) THEN "A"
    ELSE IF AtLeastThousandths(c, 800) THEN "A-"
    ELSE IF AtLeastThousandths(c, 750) THEN "B+"
    ELSE IF AtLeastThousandths(c, 700) THEN "B"
    ELSE IF AtLeastThousandths(c, 650) THEN "B-"
    ELSE IF AtLeastThousandths(c, 600) THEN "C+"
    ELSE IF AtLeastThousandths(c, 550) THEN "C"
    ELSE IF AtLeastThousandths(c, 500) THEN "C-"
    ELSE "D"

\* C18: the display grade of a confidence score in [0, 1] is the lookup on
\* score * 100 in 5-point steps from 90 (A+) down to 50 (C-), D below; a
\* score above 1 grades A+ and a score below 0 grades D, each with one
\* warning, and the transformation goes on to the INSERT.
C18_DisplayGrade ==
    Transformed =>
        /\ \A m \in DOMAIN db_data :
              LET c == csv_df[m].confidence
                  g == db_data[m].grade
              IN  ~isnaF(c) =>
                      /\ (LeqF(ZeroF, c) /\ LeqF(c, IntF(1))) => g = DisplayLookup(c)
                      /\ LessF(IntF(1), c) => g = "A+"
                      /\ LessF(c, ZeroF) => g = "D"
        /\ DOMAIN db_data = DOMAIN csv_df
        /\ warnings = Cardinality({m \in DOMAIN csv_df :
                           LET c == csv_df[m].confidence
                           IN  ~isnaF(c) /\ (LessF(c, ZeroF) \/ LessF(IntF(1), c))})

\* A score of exactly 0.90 was graded A+ without a warning and inserted,
\* next to a score of 1.2 graded A+ with a warning.
C18_Witness ==
    /\ script = "save_main"
    /\ dpc = "inserted"
    /\ csv_df[101].confidence = confidence_float(900)
    /\ csv_df[102].confidence = confidence_float(1200)
    /\ warnings = 1
    /\ DOMAIN stbl = {101, 102}
    /\ stbl[101].grade = "A+"
    /\ stbl[102].grade = "A+"

DisplayLetters == {"A+", "A", "A-", "B+", "B", "B-", "C+", "C", "C-", "D"}

\* C19: the grade handed to persistence is never null: every record of
\* db_data, one with a missing confidence included, carries a letter grade
\* (D for a missing confidence), and so does every row inserted from it.
C19_GradeNeverNull ==
    Transformed =>
        /\ \A m \in DOMAIN db_data :
              /\ db_data[m].grade \in DisplayLetters
              /\ isnaF(csv_df[m].confidence) => db_data[m].grade = "D"
        /\ dpc = "inserted" =>
              \A m \in DOMAIN stbl : stbl[m].grade \in DisplayLetters

\* What the code does: the display grade is null exactly for a missing
\* confidence and a letter otherwise, in db_data and in the inserted rows.
DisplayGradeAsCoded ==
    Transformed =>
        /\ \A m \in DOMAIN db_data :
              IF isnaF(csv_df[m].confidence)
              THEN db_data[m].grade = NULLS
              ELSE db_data[m].grade \in DisplayLetters
        /\ dpc = "inserted" =>
              \A m \in DOMAIN stbl :
                  (stbl[m].grade = NULLS) <=> isnaF(stbl[m].confidence)

\* What the code does in the two A-D graders: every calculated record and
\* every UPDATE carries a letter, D for an undefined confidence.
LetterGradersNeverNull ==
    /\ MlGraded =>
          \A m \in DOMAIN df :
              /\ df[m].ml_grade \in Letters
              /\ isnaF(df[m].ml_confidence) => df[m].ml_grade = "D"
    /\ OuGraded =>
          \A m \in DOMAIN df :
              /\ df[m].ou_grade \in Letters
              /\ isnaF(df[m].ou_confidence) => df[m].ou_grade = "D"

(***************************************************************************)
(* Independence of the records of a settlement run                         *)
(***************************************************************************)

\* A step of the loop of validate_predictions.py / validate_main.py on a
\* match whose result is complete and whose own UPDATE would succeed
\* settles that match.
ValidateSettlesComplete ==
    \A resp \in Responses :
        (ValidateProcess(resp, TRUE) /\ is_complete(resp)) =>
            LET match_id == Head(pending_matches)
            IN  tbl' = [tbl EXCEPT ![match_id] = settled_row(tbl[match_id], resp, nan_cols)]

\* The same for the loop of v3_validate.py.
V3SettlesComplete ==
    \A resp \in Responses :
        (V3Process(resp, TRUE) /\ is_complete(resp)) =>
            LET match_id == Head(pending_matches)
            IN  tbl' = [tbl EXCEPT ![match_id] =
                           settled_row_v3(tbl[match_id], resp, nan_cols)]

\* A start of v3_validate.py with PENDING rows reaches the loop with every
\* one of them to be fetched.
V3FetchesEveryPending ==
    \A order \in UNION {Orders(S) : S \in SUBSET Matches},
       works \in [1..3 -> BOOLEAN], nan \in BOOLEAN :
        (V3Start(order, works, nan) /\ pending_filter_v3(tbl) # {}) =>
            /\ pc' = "loop"
            /\ {pending_matches'[i] : i \in DOMAIN pending_matches'} = pending_filter_v3(tbl)

\* C20: records are processed independently: whatever failed on another
\* match of the run, and whichever match comes first, every pending match
\* is fetched and, if its result is complete, settled.
C20_BatchIndependence ==
    [][ValidateSettlesComplete /\ V3SettlesComplete /\ V3FetchesEveryPending]_vars

\* What the code does: inside the loops a failure on the API side (unknown
\* match, HTTP error, timeout, invalid JSON, not complete) only counts a
\* failed fetch and the loop goes on to the next match; a complete match is
\* settled unless an earlier UPDATE of the run failed (validate_predictions,
\* validate_main), and v3_validate reaches its loop when one API
\* configuration answers for the first pending match.
LoopIndependenceAsCoded ==
    [][/\ ~tx_aborted => ValidateSettlesComplete
       /\ V3SettlesComplete
       /\ \A resp \in Responses :
             ((ValidateProcess(resp, TRUE) \/ V3Process(resp, TRUE))
                  /\ ~is_complete(resp) /\ ~is_void(resp)) =>
                 /\ pending_matches' = Tail(pending_matches)
                 /\ failed_fetches' = failed_fetches + 1
                 /\ UNCHANGED <<tbl, tx_aborted, pc>>
       /\ \A order \in UNION {Orders(S) : S \in SUBSET Matches},
             works \in [1..3 -> BOOLEAN], nan \in BOOLEAN :
             (V3Start(order, works, nan) /\ pending_filter_v3(tbl) # {}
                  /\ \E i \in 1..3 : works[i]) =>
                 /\ pc' = "loop"
                 /\ {pending_matches'[i] : i \in DOMAIN pending_matches'}
                        = pending_filter_v3(tbl)]_vars

(***************************************************************************)
(* v3_validate.py: the profit/loss fields and the reported count           *)
(***************************************************************************)

V3Settled(m) == script = "v3_validate" /\ tbl[m].status = "SETTLED"

\* C21: every record v3_validate.py marks SETTLED has both profit_loss_winner
\* and profit_loss_outcome set to a computed value (neither is null).
C21_BothProfitLossSet ==
    \A m \in Matches :
        V3Settled(m) =>
            /\ tbl[m].profit_loss_winner # NULL
            /\ tbl[m].profit_loss_outcome # NULL

\* What the code does: the moneyline profit/loss is set and the over/under
\* profit/loss is written as null for every record it settles.
V3ProfitLossAsCoded ==
    \A m \in Matches :
        V3Settled(m) =>
            /\ tbl[m].profit_loss_winner # NULL
            /\ tbl[m].profit_loss_outcome = NULL

\* A step of the loop of v3_validate.py on the match at the head of
\* pending_matches.
V3LoopStep == \E resp \in Responses, db_ok \in BOOLEAN : V3Process(resp, db_ok)

\* C28: the count reported as successfully updated (SETTLED) grows by one
\* exactly in the steps that update a row to SETTLED; a record whose UPDATE
\* failed and was rolled back stays PENDING and is not counted.
C28_CountIsSettled ==
    [][V3LoopStep =>
          LET match_id == Head(pending_matches)
          IN  (successful_updates' = successful_updates + 1)
                  <=> (tbl'[match_id].status = "SETTLED"
                          /\ tbl[match_id].status = "PENDING")]_vars

\* What the code does: the count grows by one for every match the API
\* reports complete, whether its UPDATE was committed or rolled back, and
\* a rolled-back record stays PENDING.
V3CountAsCoded ==
    [][\A resp \in Responses, db_ok \in BOOLEAN :
          V3Process(resp, db_ok) =>
              LET match_id == Head(pending_matches)
              IN  /\ (successful_updates' = successful_updates + 1) <=> is_complete(resp)
                  /\ (is_complete(resp) /\ ~db_ok) => tbl'[match_id].status = "PENDING"]_vars

(***************************************************************************)
(* new_ml_grade.py: the update of a table is all or nothing                *)
(***************************************************************************)

\* C29: update_database either commits the grade and confidence of every
\* fetched record of the table, or rolls back so that no record of the table
\* is changed by the run, and the error ends the run.
C29_AtomicUpdate ==
    [][(script = "new_ml_grade" /\ gpc = "graded") =>
          \/ /\ gpc' = "done"
             /\ \A m \in DOMAIN df :
                   /\ gtbl'[m].ml_grade = df[m].ml_grade
                   /\ gtbl'[m].ml_confidence = df[m].ml_confidence
             /\ \A m \in DOMAIN gtbl \ DOMAIN df : gtbl'[m] = gtbl[m]
          \/ /\ gpc' = "failed"
             /\ gtbl' = gtbl]_vars

\* The update of two fetched and graded records failed and neither has a
\* grade in the table.
C29_Witness ==
    /\ script = "new_ml_grade"
    /\ gpc = "failed"
    /\ DOMAIN df = {101, 102}
    /\ df[101].ml_grade \in Letters
    /\ \A m \in DOMAIN df : gtbl[m].ml_grade = NULLS

(***************************************************************************)
(* save_main.py: duplicates are skipped in each table separately           *)
(***************************************************************************)

\* An insert step into table t (t2 after the step) leaves every row t has
\* as it is and adds rows of new match_ids of db_data only.
KeepsExisting(t, t2) ==
    /\ \A m \in DOMAIN t : m \in DOMAIN t2 /\ t2[m] = t[m]
    /\ DOMAIN t2 \ DOMAIN t \subseteq DOMAIN db_data
    /\ DOMAIN db_data \subseteq DOMAIN t => (t2 = t /\ inserted' = 0 /\ errors' = 0)

\* C24: a match_id a table has when the run reads it is never inserted
\* again into that table and its row is left unchanged, whatever the other
\* table holds (the other table is not touched by the step); a run over a
\* CSV whose match_ids are all in a table inserts nothing into it.
C24_DuplicatesSkipped ==
    [][/\ (script = "save_main" /\ dpc = "transformed") =>
              (KeepsExisting(stbl, stbl') /\ stbl2' = stbl2)
       /\ (script = "save_main" /\ dpc = "inserted") =>
              (KeepsExisting(stbl2, stbl2') /\ stbl' = stbl)]_vars

\* The end of a second run: the first table kept the row it had for 102 and
\* the second the row it had for 101, each got the other record in the
\* first run, and the last insert of this run inserted nothing.
C24_Witness ==
    /\ script = "save_main"
    /\ dpc = "done"
    /\ DOMAIN stbl = {101, 102}
    /\ DOMAIN stbl2 = {101, 102}
    /\ stbl[102] = OldRow
    /\ stbl2[101] = OldRowSecond
    /\ stbl[101] = [confidence |-> confidence_float(900), grade |-> "A+"]
    /\ stbl2[102] = [confidence |-> confidence_float(725), grade |-> "B"]
    /\ inserted = 0
    /\ errors = 0

(***************************************************************************)
(* Saving predictions: v3_ml.py (INSERT of the new records into            *)
(* agility_soccer_v3)                                                      *)
(***************************************************************************)

\* The columns of db_data, in the order of the INSERT statement.
db_columns_v3 ==
    <<"match_id", "date", "league", "home_team", "away_team",
      "home_odds", "away_odds", "draw_odds", "over_2_5_odds", "under_2_5_odds",
      "ctmcl", "predicted_home_goals", "predicted_away_goals", "confidence",
      "delta", "predicted_outcome", "predicted_winner", "actual_winner",
      "status", "profit_loss_outcome", "profit_loss_winner", "confidence_category",
      "actual_home_team_goals", "actual_away_team_goals", "actual_total_goals",
      "league_name", "home_id", "away_id", "league_wb", "home_teamname_wb",
      "away_teamname_wb", "home_teamid_wb", "away_teamid_wb",
      "ml_grade", "ml_confidence", "ai_moneyline", "ai_overunder", "ai_spreads">>

\* if len(values) != 36: raise ValueError
EXPECTED_COLUMNS_V3 == 36

\* The row of db_data made of a CSV row: the columns followed here are
\* match_id, confidence and status; the columns the script sets to None and
\* the columns not followed hold NULLS.
db_row_v3(r) ==
    [c \in {db_columns_v3[i] : i \in DOMAIN db_columns_v3} |->
        IF c = "match_id" THEN r.match_id
        ELSE IF c = "confidence" THEN r.confidence
        ELSE IF c = "status" THEN "PENDING"
        ELSE NULLS]

\* values = [None if pd.isna(v) else v for v in row.values]
values_v3(row) ==
    [i \in DOMAIN db_columns_v3 |->
        IF db_columns_v3[i] = "confidence" THEN none_if_na(row[db_columns_v3[i]])
        ELSE row[db_columns_v3[i]]]

\* insert_to_table of v3_ml.py
insert_to_table_v3(t, bad, db) ==
    LET existing_ids == DOMAIN t
        new_data == {m \in DOMAIN db_data : m \notin existing_ids}
        ncols == IF new_data = {} THEN EXPECTED_COLUMNS_V3
                 ELSE Len(values_v3(db_data[CHOOSE m \in new_data : TRUE]))
    IN  IF db \in {"connect", "select"} THEN early_return(t)
        ELSE insert_loop(t, [m \in DOMAIN db_data |-> values_v3(db_data[m])], new_data,
                         ncols, EXPECTED_COLUMNS_V3, bad, db)

\* [3/5] the transformation of the CSV rows into db_data
V3mlTransform ==
    /\ script = "v3_ml"
    /\ dpc = "loaded"
    /\ db_data' = [m \in DOMAIN csv_df |-> db_row_v3(csv_df[m])]
    /\ dpc' = "transformed"
    /\ UNCHANGED <<script, svars, gvars, csv_df, csv_order, warnings, stbl, xvars>>

\* result = insert_to_table(TABLE_NAME, db_data)
V3mlInsert(bad, db) ==
    /\ script = "v3_ml"
    /\ dpc = "transformed"
    /\ LET result == insert_to_table_v3(stbl, bad, db)
       IN  /\ stbl' = result.tbl
           /\ inserted' = result.inserted
           /\ errors' = result.errors
    /\ dpc' = "done"
    /\ UNCHANGED <<script, svars, gvars, csv_df, csv_order, db_data, warnings>>
    /\ UNCHANGED <<stbl2, fvars, pvars, avars>>

\* A row agility_soccer_v3 holds before the first run.
OldRowV3 == values_v3(db_row_v3([match_id |-> 102, confidence |-> confidence_float(600)]))

V3mlInit ==
    /\ script = "v3_ml"
    /\ \E S \in SUBSET Matches, c1 \in ConfidenceInputs, c2 \in SecondConfidenceInputs :
           /\ S # {}
           /\ csv_df = [m \in S |-> [match_id |-> m,
                                     confidence |-> IF m = 101 THEN c1 ELSE c2]]
           /\ csv_order \in Orders(S)
    /\ stbl \in {<<>>, [m \in {102} |-> OldRowV3]}
    /\ db_data = <<>>
    /\ dpc = "loaded"
    /\ warnings = 0
    /\ InsertIdle /\ ForceIdle /\ PredictIdle /\ AiiIdle
    /\ gtbl = <<>>
    /\ df = <<>>
    /\ gpc = "idle"
    /\ tbl = <<>>
    /\ pc = "idle"
    /\ pending_matches = <<>>
    /\ successful_updates = 0
    /\ failed_fetches = 0
    /\ api_status = ""
    /\ tx_aborted = FALSE
    /\ nan_cols = FALSE
    /\ working_api_config = 0

V3mlNext ==
    \/ V3mlTransform
    \/ \E bad \in SUBSET Matches, db \in DbOutcomes : V3mlInsert(bad, db)

SpecV3ml == V3mlInit /\ [][V3mlNext]_vars

\* C22: every CSV record whose match_id is not yet in the table, the
\* database answering every call and rejecting none of them, is inserted
\* by the run, and the reported number of inserted records is the number
\* of new match_ids.
C22_NewRecordsInserted ==
    [][\A bad \in SUBSET Matches :
          LET new_ids == DOMAIN db_data \ DOMAIN stbl
          IN  (V3mlInsert(bad, "ok") /\ bad \cap new_ids = {}) =>
                  /\ new_ids \subseteq DOMAIN stbl'
                  /\ inserted' = Cardinality(new_ids)]_vars

\* What the code does: no record is ever inserted and the run reports 0
\* inserted; every new record is counted as an error unless the connection
\* or the SELECT of the existing match_ids failed, and then no error is
\* counted.
V3mlInsertsNothing ==
    [][\A bad \in SUBSET Matches, db \in DbOutcomes :
          V3mlInsert(bad, db) =>
              /\ stbl' = stbl
              /\ inserted' = 0
              /\ errors' = IF db \in {"connect", "select"} THEN 0
                           ELSE Cardinality(DOMAIN db_data \ DOMAIN stbl)]_vars

(***************************************************************************)
(* Saving predictions: save.py (force update of soccer_predsv1)            *)
(***************************************************************************)

ForceMatches == {101, 102, 103}

\* conn.commit() every 50 records of a loop
COMMIT_EVERY == 50

\* [2/5] the row of db_data made of a CSV row (the columns followed here)
force_db_row(r) ==
    [match_id |-> r.match_id,
     confidence |-> r.confidence_category,
     predicted_winner |-> r.outcome_label,
     status |-> r.status,
     data_source |-> "FootyStats_API"]

\* (a variant whose UPDATE sets the settlement columns as the INSERT does)
update_query_all(row, d) ==
    [row EXCEPT !.confidence = d.confidence,
                !.predicted_winner = d.predicted_winner,
                !.status = d.status,
                !.data_source = d.data_source,
                !.actual_over_under = NULLS,
                !.actual_winner = NULLS,
                !.profit_loss_over_under = NULL,
                !.profit_loss_moneyline = NULL]

\* update_query: the row after UPDATE ... SET ... WHERE match_id = %s
update_query(row, d) ==
    [row EXCEPT !.confidence = d.confidence,
                !.predicted_winner = d.predicted_winner,
                !.status = d.status,
                !.data_source = d.data_source]

\* insert_query: the row inserted for a new record
insert_query(d) ==
    [confidence |-> d.confidence,
     predicted_winner |-> d.predicted_winner,
     status |-> d.status,
     data_source |-> d.data_source,
     actual_over_under |-> NULLS,
     actual_winner |-> NULLS,
     profit_loss_over_under |-> NULL,
     profit_loss_moneyline |-> NULL]

\* [1/5] .. [4/5]: load, transform, connect, read the existing match_ids
\* and split db_data into the records to UPDATE and the records to INSERT,
\* each in the order of the CSV rows.  When the connection fails the
\* script exits, when the SELECT raises it ends with the exception.
ForceStart(db_ok) ==
    /\ script = "save"
    /\ dpc = "loaded"
    /\ db_data' = [m \in DOMAIN csv_df |-> force_db_row(csv_df[m])]
    /\ IF db_ok
       THEN /\ LET existing_ids == DOMAIN stbl
                   existing_records == {m \in DOMAIN csv_df : m \in existing_ids}
               IN  todo' = iterrows(existing_records)
            /\ wtbl' = stbl
            /\ dpc' = "update"
       ELSE /\ dpc' = "failed"
            /\ UNCHANGED <<todo, wtbl>>
    /\ updated' = 0
    /\ update_errors' = 0
    /\ UNCHANGED <<script, svars, gvars, csv_df, csv_order, warnings, stbl, mvars, pvars, avars>>

\* One iteration of the update loop: the UPDATE of the record succeeds
\* (db_ok) or raises, and then the transaction is rolled back.  After every
\* 50th counted UPDATE the loop commits inside the same try: a commit that
\* raises (not commit_ok) is counted as an update error and answered by
\* the rollback, the record staying counted in `updated`.
ForceUpdate(db_ok, commit_ok) ==
    /\ script = "save"
    /\ dpc = "update"
    /\ todo # <<>>
    /\ LET m == Head(todo)
           executed == [wtbl EXCEPT ![m] = update_query(wtbl[m], db_data[m])]
       IN  IF ~db_ok
           THEN /\ update_errors' = update_errors + 1
                /\ wtbl' = stbl                       \* conn.rollback()
                /\ UNCHANGED <<updated, stbl>>
           ELSE /\ updated' = updated + 1
                /\ IF updated' % COMMIT_EVERY # 0
                   THEN /\ wtbl' = executed
                        /\ UNCHANGED <<stbl, update_errors>>
                   ELSE IF commit_ok
                   THEN /\ wtbl' = executed
                        /\ stbl' = executed           \* conn.commit()
                        /\ UNCHANGED update_errors
                   ELSE /\ update_errors' = update_errors + 1
                        /\ wtbl' = stbl               \* conn.rollback()
                        /\ UNCHANGED stbl
    /\ todo' = Tail(todo)
    /\ UNCHANGED <<script, svars, gvars, csv_df, csv_order, db_data, dpc, warnings, mvars, pvars, avars>>

\* conn.commit() after the update loop, then the start of the insert loop
\* if there are new records.  The commit is outside any try: when it
\* raises the script ends and the open transaction is lost.
ForceUpdateDone(commit_ok) ==
    /\ script = "save"
    /\ dpc = "update"
    /\ todo = <<>>
    /\ IF commit_ok
       THEN /\ stbl' = wtbl
            /\ LET new_records == {m \in DOMAIN db_data : m \notin DOMAIN stbl}
               IN  /\ todo' = iterrows(new_records)
                   /\ dpc' = IF new_records # {} THEN "insert" ELSE "done"
            /\ UNCHANGED wtbl
       ELSE /\ wtbl' = stbl
            /\ dpc' = "failed"
            /\ UNCHANGED <<stbl, todo>>
    /\ inserted' = 0
    /\ errors' = 0
    /\ UNCHANGED <<script, svars, gvars, csv_df, csv_order, db_data, warnings, stbl2,
                   updated, update_errors, pvars, avars>>

\* One iteration of the insert loop, with the same commit after every 50th
\* counted INSERT.
ForceInsert(db_ok, commit_ok) ==
    /\ script = "save"
    /\ dpc = "insert"
    /\ todo # <<>>
    /\ LET m == Head(todo)
           executed == [n \in DOMAIN wtbl \cup {m} |->
                           IF n = m THEN insert_query(db_data[m]) ELSE wtbl[n]]
       IN  IF ~db_ok
           THEN /\ errors' = errors + 1
                /\ wtbl' = stbl                       \* conn.rollback()
                /\ UNCHANGED <<inserted, stbl>>
           ELSE /\ inserted' = inserted + 1
                /\ IF inserted' % COMMIT_EVERY # 0
                   THEN /\ wtbl' = executed
                        /\ UNCHANGED <<stbl, errors>>
                   ELSE IF commit_ok
                   THEN /\ wtbl' = executed
                        /\ stbl' = executed           \* conn.commit()
                        /\ UNCHANGED errors
                   ELSE /\ errors' = errors + 1
                        /\ wtbl' = stbl               \* conn.rollback()
                        /\ UNCHANGED stbl
    /\ todo' = Tail(todo)
    /\ UNCHANGED <<script, svars, gvars, csv_df, csv_order, db_data, dpc, warnings, stbl2,
                   updated, update_errors, pvars, avars>>

\* conn.commit() after the insert loop, outside any try.
ForceInsertDone(commit_ok) ==
    /\ script = "save"
    /\ dpc = "insert"
    /\ todo = <<>>
    /\ IF commit_ok
       THEN /\ stbl' = wtbl
            /\ dpc' = "done"
            /\ UNCHANGED wtbl
       ELSE /\ wtbl' = stbl
            /\ dpc' = "failed"
            /\ UNCHANGED stbl
    /\ UNCHANGED <<script, svars, gvars, csv_df, csv_order, db_data, warnings, mvars,
                   todo, updated, update_errors, pvars, avars>>

\* Rows soccer_predsv1 holds before the run: one settled by
\* validate_predictions.py, one still pending.
SettledForceRow ==
    [confidence |-> "Low", predicted_winner |-> "Home Win", status |-> "COMPLETE",
     data_source |-> "import",
     actual_over_under |-> "Over", actual_winner |-> "Arsenal",
     profit_loss_over_under |-> 84, profit_loss_moneyline |-> 0 - 100]
PendingForceRow ==
    [confidence |-> "Low", predicted_winner |-> "Draw", status |-> "PENDING",
     data_source |-> "import",
     actual_over_under |-> NULLS, actual_winner |-> NULLS,
     profit_loss_over_under |-> NULL, profit_loss_moneyline |-> NULL]

ForceCsvRows(m) ==
    [match_id : {m}, confidence_category : {"High"},
     outcome_label : IF m = 101 THEN {"Home Win", "Away Win"} ELSE {"Draw"},
     status : {"PENDING"}]

\* A CSV file of as many records as one periodic commit covers.
BulkMatches == {200 + i : i \in 1..COMMIT_EVERY}
BulkCsvRow(m) ==
    [match_id |-> m, confidence_category |-> "High", outcome_label |-> "Draw",
     status |-> "PENDING"]

ForceInit ==
    /\ script = "save"
    /\ \/ /\ \E S \in SUBSET ForceMatches :
                  /\ S # {}
                  /\ csv_df \in [S -> UNION {ForceCsvRows(m) : m \in S}]
                  /\ \A m \in S : csv_df[m].match_id = m
                  /\ csv_order \in Orders(S)
          /\ \E T \in SUBSET ForceMatches :
                  stbl \in [T -> {SettledForceRow, PendingForceRow}]
       \/ /\ csv_df = [m \in BulkMatches |-> BulkCsvRow(m)]
          /\ csv_order = Ascending(BulkMatches)
          /\ stbl \in {<<>>, [m \in BulkMatches |-> PendingForceRow]}
    /\ wtbl = <<>>
    /\ todo = <<>>
    /\ updated = 0
    /\ update_errors = 0
    /\ db_data = <<>>
    /\ dpc = "loaded"
    /\ warnings = 0
    /\ InsertIdle /\ PredictIdle /\ AiiIdle
    /\ gtbl = <<>>
    /\ df = <<>>
    /\ gpc = "idle"
    /\ tbl = <<>>
    /\ pc = "idle"
    /\ pending_matches = <<>>
    /\ successful_updates = 0
    /\ failed_fetches = 0
    /\ api_status = ""
    /\ tx_aborted = FALSE
    /\ nan_cols = FALSE
    /\ working_api_config = 0

ForceNext ==
    \/ \E db_ok \in BOOLEAN : ForceStart(db_ok)
    \/ \E db_ok, commit_ok \in BOOLEAN : ForceUpdate(db_ok, commit_ok)
    \/ \E commit_ok \in BOOLEAN : ForceUpdateDone(commit_ok)
    \/ \E db_ok, commit_ok \in BOOLEAN : ForceInsert(db_ok, commit_ok)
    \/ \E commit_ok \in BOOLEAN : ForceInsertDone(commit_ok)

SpecForce == ForceInit /\ [][ForceNext]_vars

\* The four settlement columns of a row.
SettlementColumns(row) ==
    <<row.actual_winner, row.actual_over_under,
      row.profit_loss_over_under, row.profit_loss_moneyline>>

\* C23: no step of the force update changes actual_winner,
\* actual_over_under, profit_loss_over_under or profit_loss_moneyline of a
\* record the table holds, in the table or in the open transaction.
C23_SettlementKept ==
    [][script = "save" =>
          /\ \A m \in DOMAIN stbl :
                m \in DOMAIN stbl' /\ SettlementColumns(stbl'[m]) = SettlementColumns(stbl[m])
          /\ \A m \in DOMAIN wtbl \cap DOMAIN wtbl' :
                SettlementColumns(wtbl'[m]) = SettlementColumns(wtbl[m])]_vars

\* The run ended; the settled record 101 was updated from the CSV (winner
\* pick, status, data source) and still has its settlement results.
C23_Witness ==
    /\ script = "save"
    /\ dpc = "done"
    /\ updated = 1
    /\ 101 \in DOMAIN stbl
    /\ stbl[101].predicted_winner = "Away Win"
    /\ stbl[101].data_source = "FootyStats_API"
    /\ SettlementColumns(stbl[101]) = SettlementColumns(SettledForceRow)

\* C27: when the update loop has ended and its last commit is made, the
\* number reported as successfully updated is the number of existing
\* records whose UPDATE is stored, and no later step of the run changes an
\* existing record.
C27_UpdatedIsCommitted ==
    [][/\ (script = "save" /\ dpc = "update" /\ todo = <<>> /\ dpc' # "failed") =>
              updated = Cardinality({m \in DOMAIN stbl' :
                                        stbl'[m].data_source = "FootyStats_API"})
       /\ (script = "save" /\ dpc = "insert") =>
              \A m \in DOMAIN stbl : stbl'[m] = stbl[m]]_vars

\* What the code does: the rollback after a failed UPDATE undoes every
\* UPDATE made since the last commit, so the stored updates are those made
\* after the last failure; they are never more than the number reported.
UpdatedAsCoded ==
    [][(script = "save" /\ dpc = "update" /\ todo = <<>> /\ dpc' # "failed") =>
          /\ updated >= Cardinality({m \in DOMAIN stbl' :
                                        stbl'[m].data_source = "FootyStats_API"})
          /\ update_errors = 0 =>
                updated = Cardinality({m \in DOMAIN stbl' :
                                          stbl'[m].data_source = "FootyStats_API"})]_vars

(***************************************************************************)
(* predict.py: only the new matches are predicted                          *)
(***************************************************************************)

PredictMatches == {101, 102, 103}

\* predictions_file: no file ("absent"), a file pd.read_csv raises on
\* ("unreadable"), or a file with the sequence of its rows ("rows").
NoFile == [state |-> "absent", rows |-> <<>>]
BadFile == [state |-> "unreadable", rows |-> <<>>]
CsvFile(rows) == [state |-> "rows", rows |-> rows]
IsRows(f) == f.state = "rows"

\* set(df['match_id'].values) of a sequence of rows
MatchIds(rows) == {rows[i].match_id : i \in DOMAIN rows}

\* The goals the Ridge models predict for a match (tenths): a function of
\* the match's features row, one value per match here.
PredictedGoals == [m \in PredictMatches |-> 10 + (m - 100)]

\* The row of a match predicted by an earlier run from earlier features.
EarlierRow(m) == [match_id |-> m, predicted_home_goals |-> 5, status |-> "PENDING"]

\* [6/7] the results row of a match
results_row(m) == [match_id |-> m, predicted_home_goals |-> PredictedGoals[m], status |-> "PENDING"]

\* existing_df[existing_df['match_id'].isin(valid_match_ids)]
isin_filter(rows, valid_match_ids) ==
    SelectSeq(rows, LAMBDA r : r.match_id \in valid_match_ids)

\* (a variant that takes every match of the features file as new)
new_matches_all(rows, predicted_match_ids) == rows

\* df[~df['match_id'].isin(predicted_match_ids)], the rows of the features
\* file kept in their order
new_matches(rows, predicted_match_ids) ==
    SelectSeq(rows, LAMBDA m : m \notin predicted_match_ids)

\* One run of predict.py; models_ok says whether the models and the scaler
\* load and predict without an exception.
PredictRun(models_ok) ==
    /\ script = "predict"
    /\ LET valid_match_ids == Range(features)
           readable == IsRows(predictions_file)
           old_predictions == IF readable
                              THEN SelectSeq(predictions_file.rows,
                                             LAMBDA r : r.match_id \notin valid_match_ids)
                              ELSE <<>>
           existing_df == IF readable THEN isin_filter(predictions_file.rows, valid_match_ids)
                          ELSE <<>>
           predicted_match_ids == MatchIds(existing_df)
           new_matches_df == new_matches(features, predicted_match_ids)
           results == [i \in DOMAIN new_matches_df |-> results_row(new_matches_df[i])]
       IN  IF new_matches_df = <<>>
           THEN predictions_file' =
                    IF readable /\ Len(old_predictions) > 0 THEN CsvFile(existing_df)
                    ELSE predictions_file             \* exit(0)
           ELSE IF ~models_ok
           THEN predictions_file' = predictions_file  \* exit(1)
           ELSE IF readable /\ predicted_match_ids # {}
           THEN predictions_file' = CsvFile(existing_df \o results)
           ELSE predictions_file' = CsvFile(results)
    /\ UNCHANGED <<script, svars, gvars, csv_df, csv_order, db_data, dpc, warnings, stbl,
                   mvars, fvars, features, avars>>

\* extracted_features_complete.csv is written anew by the feature
\* extraction between two runs.
FeaturesChange(F) ==
    /\ script = "predict"
    /\ features' = F
    /\ features' # features
    /\ UNCHANGED <<script, svars, gvars, csv_df, csv_order, db_data, dpc, warnings, stbl,
                   mvars, fvars, predictions_file, avars>>

\* The features files: the matches of any subset in any order of rows.
FeatureFiles == UNION {Orders(S) : S \in SUBSET PredictMatches}

PredictInit ==
    /\ script = "predict"
    /\ features \in FeatureFiles
    /\ \/ predictions_file \in {NoFile, BadFile}
       \/ \E S \in SUBSET PredictMatches :
              predictions_file =
                  CsvFile([i \in 1..Cardinality(S) |-> EarlierRow(Ascending(S)[i])])
    /\ csv_df = <<>>
    /\ csv_order = <<>>
    /\ db_data = <<>>
    /\ dpc = "idle"
    /\ warnings = 0
    /\ stbl = <<>>
    /\ InsertIdle /\ ForceIdle /\ AiiIdle
    /\ gtbl = <<>>
    /\ df = <<>>
    /\ gpc = "idle"
    /\ tbl = <<>>
    /\ pc = "idle"
    /\ pending_matches = <<>>
    /\ successful_updates = 0
    /\ failed_fetches = 0
    /\ api_status = ""
    /\ tx_aborted = FALSE
    /\ nan_cols = FALSE
    /\ working_api_config = 0

PredictNext ==
    \/ \E models_ok \in BOOLEAN : PredictRun(models_ok)
    \/ \E F \in FeatureFiles : FeaturesChange(F)

SpecPredict == PredictInit /\ [][PredictNext]_vars

\* The rows a file holds, none if there is no readable file.
FileRows(f) == IF IsRows(f) THEN {f.rows[i] : i \in DOMAIN f.rows} ELSE {}

\* The match_ids without a prediction before a run.
NewToPredict == Range(features) \ {r.match_id : r \in FileRows(predictions_file)}

\* C25: after a run that finds at least one new match (and whose models
\* load), the file holds exactly one prediction for each match_id of the
\* features file and for no other; the rows it had for matches still listed
\* are kept as they were, the rows of matches no longer listed are gone, and
\* only the new matches are predicted.
C25_OnlyNewPredicted ==
    [][(PredictRun(TRUE) /\ NewToPredict # {}) =>
          /\ IsRows(predictions_file')
          /\ MatchIds(predictions_file'.rows) = Range(features)
          /\ Len(predictions_file'.rows) = Len(features)
          /\ \A r \in FileRows(predictions_file) :
                r.match_id \in Range(features) => r \in FileRows(predictions_file')
          /\ \A m \in NewToPredict : results_row(m) \in FileRows(predictions_file')]_vars

\* The file after a run over the features of 101 and 103: the earlier
\* prediction of 101 as it was, the new prediction of 103, nothing else.
C25_Witness ==
    /\ script = "predict"
    /\ features = <<103, 101>>
    /\ predictions_file =
           CsvFile(<<EarlierRow(101), results_row(103)>>)

(***************************************************************************)
(* aii.py: AI predictions for the matches that have none                   *)
(***************************************************************************)

\* The three AI fields of a row of agility_soccer_v1.
NoAi == [ai_moneyline |-> NULLS, ai_overunder |-> NULLS, ai_spreads |-> NULLS]
EarlierAi ==
    [ai_moneyline |-> "Away Win", ai_overunder |-> "Under 2.5", ai_spreads |-> "Chelsea (-1.5)"]
EarlierSpreadsOnly ==
    [ai_moneyline |-> NULLS, ai_overunder |-> NULLS, ai_spreads |-> "Arsenal (+0.5)"]

\* What a call of the LLM comes back as: no response, or the predictions
\* parse_mistral_response extracts from it (a field it finds nothing for
\* stays None).
NoResponse == [response |-> FALSE, predictions |-> NoAi]
AiResponses ==
    {NoResponse,
     [response |-> TRUE,
      predictions |-> [ai_moneyline |-> "Home Win", ai_overunder |-> "Over 2.5",
                       ai_spreads |-> "Arsenal (-1.5)"]],
     [response |-> TRUE,
      predictions |-> [ai_moneyline |-> "Draw", ai_overunder |-> NULLS,
                       ai_spreads |-> "Arsenal (+0.5)"]],
     [response |-> TRUE, predictions |-> NoAi]}

\* check_predictions_exist: False when the SELECT raises or finds no row,
\* otherwise whether any of the three fields is not None.
check_predictions_exist(t, match_id, raises) ==
    IF raises THEN FALSE
    ELSE IF match_id \notin DOMAIN t THEN FALSE
    ELSE ~(t[match_id].ai_moneyline = NULLS /\ t[match_id].ai_overunder = NULLS
               /\ t[match_id].ai_spreads = NULLS)

\* process_predictions up to the first check: the CSV rows in file order
\* and a new connection.
AiiStart(csv) ==
    /\ script = "aii"
    /\ apc \in {"idle", "done"}
    /\ csv # <<>>
    /\ to_check' = csv
    /\ matches_to_process' = <<>>
    /\ conn_aborted' = FALSE
    /\ success_count' = 0
    /\ error_count' = 0
    /\ apc' = "check"
    /\ UNCHANGED <<script, svars, gvars, csv_df, csv_order, db_data, dpc, warnings, stbl,
                   mvars, fvars, pvars, atbl>>

\* One iteration of the loop that filters the matches: the SELECT raises
\* when the database rejects it (~check_ok) or when an earlier statement
\* left the transaction aborted; nothing rolls back after it.
AiiCheck(check_ok) ==
    /\ script = "aii"
    /\ apc = "check"
    /\ to_check # <<>>
    /\ LET match_id == Head(to_check)
           raises == ~check_ok \/ conn_aborted
       IN  /\ conn_aborted' = raises
           /\ matches_to_process' =
                  IF ~check_predictions_exist(atbl, match_id, raises)
                  THEN Append(matches_to_process, match_id)
                  ELSE matches_to_process
    /\ to_check' = Tail(to_check)
    /\ UNCHANGED <<script, svars, gvars, csv_df, csv_order, db_data, dpc, warnings, stbl,
                   mvars, fvars, pvars, atbl, apc, success_count, error_count>>

\* After the filter: nothing to do, or the analysis starts.
AiiCheckDone ==
    /\ script = "aii"
    /\ apc = "check"
    /\ to_check = <<>>
    /\ apc' = IF matches_to_process = <<>> THEN "done" ELSE "process"
    /\ UNCHANGED <<script, svars, gvars, csv_df, csv_order, db_data, dpc, warnings, stbl,
                   mvars, fvars, pvars, atbl, to_check, matches_to_process,
                   conn_aborted, success_count, error_count>>

\* update_predictions: UPDATE and commit, or rollback.
update_predictions(t, match_id, predictions, executes) ==
    IF executes /\ match_id \in DOMAIN t
    THEN [t EXCEPT ![match_id] = predictions]
    ELSE t

\* One iteration of the analysis loop: the LLM call and, when it answers,
\* the UPDATE of the three fields with what was parsed.
AiiProcess(resp, db_ok) ==
    /\ script = "aii"
    /\ apc = "process"
    /\ matches_to_process # <<>>
    /\ LET match_id == Head(matches_to_process)
           executes == db_ok /\ ~conn_aborted
       IN  IF resp.response
           THEN /\ atbl' = update_predictions(atbl, match_id, resp.predictions, executes)
                /\ conn_aborted' = FALSE              \* commit() or rollback()
                /\ success_count' = IF executes THEN success_count + 1 ELSE success_count
                /\ error_count' = IF executes THEN error_count ELSE error_count + 1
           ELSE /\ error_count' = error_count + 1
                /\ UNCHANGED <<atbl, conn_aborted, success_count>>
    /\ matches_to_process' = Tail(matches_to_process)
    /\ UNCHANGED <<script, svars, gvars, csv_df, csv_order, db_data, dpc, warnings, stbl,
                   mvars, fvars, pvars, apc, to_check>>

AiiProcessDone ==
    /\ script = "aii"
    /\ apc = "process"
    /\ matches_to_process = <<>>
    /\ apc' = "done"
    /\ UNCHANGED <<script, svars, gvars, csv_df, csv_order, db_data, dpc, warnings, stbl,
                   mvars, fvars, pvars, atbl, to_check, matches_to_process,
                   conn_aborted, success_count, error_count>>

AiiInit ==
    /\ script = "aii"
    /\ atbl \in [Matches -> {NoAi, EarlierAi, EarlierSpreadsOnly}]
    /\ apc = "idle"
    /\ to_check = <<>>
    /\ matches_to_process = <<>>
    /\ conn_aborted = FALSE
    /\ success_count = 0
    /\ error_count = 0
    /\ csv_df = <<>>
    /\ csv_order = <<>>
    /\ db_data = <<>>
    /\ dpc = "idle"
    /\ warnings = 0
    /\ stbl = <<>>
    /\ InsertIdle /\ ForceIdle /\ PredictIdle
    /\ gtbl = <<>>
    /\ df = <<>>
    /\ gpc = "idle"
    /\ tbl = <<>>
    /\ pc = "idle"
    /\ pending_matches = <<>>
    /\ successful_updates = 0
    /\ failed_fetches = 0
    /\ api_status = ""
    /\ tx_aborted = FALSE
    /\ nan_cols = FALSE
    /\ working_api_config = 0

AiiNext ==
    \/ \E csv \in UNION {Orders(S) : S \in SUBSET Matches} : AiiStart(csv)
    \/ \E check_ok \in BOOLEAN : AiiCheck(check_ok)
    \/ AiiCheckDone
    \/ \E resp \in AiResponses, db_ok \in BOOLEAN : AiiProcess(resp, db_ok)
    \/ AiiProcessDone

SpecAii == AiiInit /\ [][AiiNext]_vars

\* The row has an AI prediction: one of its three fields is set.
HasAi(row) ==
    row.ai_moneyline # NULLS \/ row.ai_overunder # NULLS \/ row.ai_spreads # NULLS

\* C26: a match whose row has any of the three AI fields set is skipped by
\* the filter (no LLM call, no UPDATE for it), and no step of any run
\* changes any of the three fields of such a row.
C26_AiNeverOverwritten ==
    [][script = "aii" =>
          /\ \A m \in DOMAIN atbl : HasAi(atbl[m]) => atbl'[m] = atbl[m]
          /\ (apc = "check" /\ to_check # <<>> /\ HasAi(atbl[Head(to_check)])) =>
                matches_to_process' = matches_to_process]_vars

\* What the code does: a match with an AI field set is skipped when its
\* SELECT returns, and a row is changed only for the match being analysed,
\* which is one the filter did not skip.
AiSkippedWhenChecked ==
    [][script = "aii" =>
          /\ (AiiCheck(TRUE) /\ ~conn_aborted /\ HasAi(atbl[Head(to_check)])) =>
                matches_to_process' = matches_to_process
          /\ \A m \in DOMAIN atbl :
                atbl'[m] # atbl[m] =>
                    (apc = "process" /\ matches_to_process # <<>>
                         /\ m = Head(matches_to_process))]_vars

====
